---- MODULE Spec2Model ----
(***************************************************************************)
(* A model of the Parallax engine (ParallaxSingleton in src/src/parallax.mjs, *)
(* the TypeScript revision at the end of the file): the tracked set, the   *)
(* per-instance configuration records, the host objects and their tiling   *)
(* clones, the stored last camera position and the global camera anchor,   *)
(* with one action per public call (add, remove, update, setCameraAnchor,  *)
(* resetAnchor).                                                           *)
(*                                                                         *)
(* Numbers.  The engine computes with JavaScript numbers.  Every coordinate,*)
(* size, scale and speed of the model is an integer count of 1/Den units   *)
(* (Den = 2, so 0.5 is 1 and 1 is 2).  Cameras, anchors, icon sizes and     *)
(* scales are whole numbers, speeds are multiples of 0.5, so every product *)
(* and every halving the code performs is exact in this representation and *)
(* in IEEE doubles alike; Math.floor(x - w / 6) is computed on the exact   *)
(* rational.                                                               *)
(*                                                                         *)
(* null / undefined.  A value that may be null or undefined is a sequence: *)
(* <<>> for null/undefined, <<n>> for the number n.                        *)
(***************************************************************************)
EXTENDS Integers, Sequences, FiniteSets, TLC

----------------------------------------------------------------------------
(* Bounds of the model *)

\* the number of API calls explored from the initial state
MaxSteps == 3
\* camera coordinates passed to update and returned by the camera accessor
\* are -MaxCam, 0 and MaxCam
MaxCam == 3

----------------------------------------------------------------------------
(* JavaScript numbers and nullable values *)

Den == 2
Whole(n) == n * Den
\* a * b for two fixed-point numbers
Times(a, b) == (a * b) \div Den
\* a / 2
HalfOf(a) == a \div 2
\* Math.floor(x - w / 6)
FloorOfMinusSixth(x, w) == Den * ((6 * x - w) \div (6 * Den))

None == <<>>
Some(v) == <<v>>
\* typeof v === 'number'
IsNumber(v) == v # None
\* v ?? d
Nullish(v, d) == IF v = None THEN d ELSE v[1]
\* a || b  (null, undefined and 0 are falsy)
OrElse(a, b) == IF a = None \/ a = Some(0) THEN b ELSE a

----------------------------------------------------------------------------
(* The host: instance objects, their icons and scales, camera positions *)

Instances == {"i1", "i2"}
\* the value of a missing pInstance argument
NullRef == "null"

IconWidth(i) == IF i = "i1" THEN Whole(4) ELSE Whole(2)
IconHeight(i) == IF i = "i1" THEN Whole(4) ELSE Whole(3)
ScaleX(i) == IF i = "i1" THEN Whole(1) ELSE Whole(2)
ScaleY(i) == Whole(1)

\* a host object before the engine has touched it
NewObject(i) ==
    [x |-> IF i = "i1" THEN Whole(0) ELSE Whole(1),
     y |-> IF i = "i1" THEN Whole(0) ELSE Whole(-2),
     mapName |-> "map1",
     plane |-> None,
     _parallaxOldX |-> None,
     _parallaxOldY |-> None]

Cams == {Whole(-MaxCam), Whole(0), Whole(MaxCam)}
\* the arguments of update: two camera coordinates, or both omitted
CamArgs == {<<Some(c), Some(d)>> : c \in Cams, d \in Cams} \cup {<<None, None>>}
\* what VYLO.Client.getViewEye() returns: null or a position
ViewEyes == {None, Some([x |-> Whole(0), y |-> Whole(0)]),
             Some([x |-> Whole(MaxCam), y |-> Whole(-MaxCam)])}

----------------------------------------------------------------------------
(* Configurations passed to add *)

\* both speed fields hold numbers
NumberSpeeds == [horizontalSpeed |-> "number", verticalSpeed |-> "number"]

Cfg(hs, vs, ih, iv, ax, ay, g) ==
    [kind |-> "object",
     horizontalSpeed |-> hs, verticalSpeed |-> vs,
     \* the JavaScript type of the value held in each speed field
     typeOf |-> NumberSpeeds,
     infiniteHorizontal |-> ih, infiniteVertical |-> iv,
     cameraAnchorX |-> ax, cameraAnchorY |-> ay,
     ground |-> g,
     groundY |-> IF g THEN Whole(4) ELSE 0,
     groundMapname |-> IF g THEN "groundMap" ELSE "undefined"]

\* speeds 0.5, 1 and -0.5
SpeedHalf == Whole(1) \div 2
SpeedOne == Whole(1)
SpeedBack == 0 - SpeedHalf

Configs ==
    { \* the spec's example: no tiling, both axes follow the camera delta
      Cfg(SpeedHalf, SpeedOne, FALSE, FALSE, None, None, FALSE),
      \* background on x only, and on y only, with both infinite flags
      Cfg(0, SpeedOne, TRUE, TRUE, None, None, FALSE),
      Cfg(SpeedHalf, 0, TRUE, TRUE, None, None, FALSE),
      \* tiling on y only, and on both axes
      Cfg(SpeedOne, SpeedBack, FALSE, TRUE, None, None, FALSE),
      Cfg(SpeedBack, SpeedBack, TRUE, TRUE, None, None, FALSE),
      \* per-instance camera anchors
      Cfg(SpeedHalf, SpeedHalf, FALSE, FALSE, Some(Whole(1)), Some(Whole(-1)), FALSE),
      \* ground instances, without and with tiling
      Cfg(0, 0, FALSE, FALSE, None, None, TRUE),
      Cfg(0, SpeedOne, TRUE, FALSE, None, None, TRUE) }

\* pConfig values that are not objects
NonObjects == { [kind |-> "null"], [kind |-> "string"] }

\* the configurations each instance is registered with
ConfigsOf(i) ==
    IF i = "i2"
    THEN { c \in Configs :
             \/ c = Cfg(SpeedHalf, SpeedOne, FALSE, FALSE, None, None, FALSE)
             \/ c = Cfg(SpeedBack, SpeedBack, TRUE, TRUE, None, None, FALSE)
             \/ c = Cfg(0, SpeedOne, TRUE, FALSE, None, None, TRUE) }
    ELSE Configs

\* the camera positions each instance is registered at
ViewEyesOf(i) == IF i = "i2" THEN ViewEyes \ {None} ELSE ViewEyes

\* the listener functions passed to on and off; l2 throws whenever it is called
Listeners == {"l1", "l2", "l3"}
Throws(pListener) == pListener = "l2"
EventNames == {"MoveEvent", "OtherEvent"}

AnchorPositions == { [x |-> Some(Whole(0)), y |-> Some(Whole(0))],
                     [x |-> Some(Whole(2)), y |-> Some(Whole(-2))] }

----------------------------------------------------------------------------
(* State *)

VARIABLES
    instances,        \* the tracked Set, in insertion order
    instanceWeakMap,  \* instance -> configuration record (domain = the keys held)
    obj,              \* the host objects: x, y, mapName, _parallaxOldX/Y
    diobs,            \* every tiling clone created so far
    lastCamPos,       \* [x, y], each null or a number
    cameraAnchor,     \* [x, y], each null or a number
    anchorXSet,
    anchorYSet,
    call,             \* the last API call: name, arguments, errors logged by it, ...
    emitted,          \* instance -> MoveEvents emitted during the last call
    shift,            \* instance -> tiling shift [x, y] applied during the last call
    removed,          \* instances passed to remove while tracked and not to add since
    events,           \* EventEmitter.events: instance -> event name -> Set of listeners
    invoked,          \* listener -> times it was invoked during the last call
    consoleErrors,    \* console.error calls made during the last call
    thrown,           \* an exception escaped from the last call
    callerConfig,     \* instance -> the pConfig object its caller kept after add
    layer,            \* the Layer object: constructed, config, the instances
                      \* passed to its add and not to its remove since (added)
                      \* and the instances ever passed to its add (ever)
    VYLO,             \* the host's global: "object", "undefined" or "undeclared"
    outOfSync,        \* listener invocations of the last call that were made
                      \* while a clone of the instance was away from the
                      \* instance's position plus the clone's relative offset
    onCalls,          \* <<instance, event name, listener>> -> the on calls made
                      \* for it since the last off call for it
    steps

vars == <<instances, instanceWeakMap, obj, diobs, lastCamPos, cameraAnchor,
          anchorXSet, anchorYSet, call, emitted, shift, removed, events, invoked,
          consoleErrors, thrown, callerConfig, layer, VYLO, outOfSync, onCalls, steps>>

NoShift == [x |-> 0, y |-> 0]

\* the engine's state as one record, at the start of a call
Engine ==
    [instances |-> instances, instanceWeakMap |-> instanceWeakMap, obj |-> obj,
     diobs |-> diobs, lastCamPos |-> lastCamPos, cameraAnchor |-> cameraAnchor,
     anchorXSet |-> anchorXSet, anchorYSet |-> anchorYSet,
     errors |-> 0,
     emitted |-> [i \in Instances |-> 0],
     shift |-> [i \in Instances |-> NoShift],
     events |-> events,
     invoked |-> [l \in Listeners |-> 0],
     consoleErrors |-> 0,
     thrown |-> FALSE,
     callerConfig |-> callerConfig,
     layer |-> layer,
     VYLO |-> VYLO,
     onCalls |-> onCalls,
     outOfSync |-> 0,
     warnings |-> 0]

Has(seq, e) == \E k \in 1..Len(seq) : seq[k] = e
Without(seq, e) == SelectSeq(seq, LAMBDA v : v # e)

----------------------------------------------------------------------------
(* Camera state *)

\* getCamPos: the view eye's position, or {x: null, y: null}
getCamPos(viewEye) ==
    IF viewEye # None
    THEN [x |-> Some(viewEye[1].x), y |-> Some(viewEye[1].y)]
    ELSE [x |-> None, y |-> None]

hasLastCamPos(s) == s.lastCamPos.x # None /\ s.lastCamPos.y # None

setLastCamPos(s, pX, pY) == [s EXCEPT !.lastCamPos = [x |-> Some(pX), y |-> Some(pY)]]

getAnchorX(s) == s.cameraAnchor.x
getAnchorY(s) == s.cameraAnchor.y

setCameraAnchorX(s, pXAnchor) ==
    [s EXCEPT !.cameraAnchor.x = pXAnchor, !.anchorXSet = TRUE]

setCameraAnchorY(s, pYAnchor) ==
    [s EXCEPT !.cameraAnchor.y = pYAnchor, !.anchorYSet = TRUE]

setCameraAnchor(s, pCameraAnchor) ==
    setCameraAnchorY(setCameraAnchorX(s, pCameraAnchor.x), pCameraAnchor.y)

resetAnchorX(s) == [s EXCEPT !.cameraAnchor.x = None, !.anchorXSet = FALSE]
resetAnchorY(s) == [s EXCEPT !.cameraAnchor.y = None, !.anchorYSet = FALSE]
resetAnchor(s) == resetAnchorY(resetAnchorX(s))

----------------------------------------------------------------------------
(* Logging and events *)

\* logger.prefix('Parallax-Module').error(...)
logError(s) == [s EXCEPT !.errors = @ + 1]

\* Map.set(k, v) and Map.delete(k) on a map held as a function
MapPut(f, k, v) == [j \in DOMAIN f \cup {k} |-> IF j = k THEN v ELSE f[j]]
MapDrop(f, k) == [j \in DOMAIN f \ {k} |-> f[j]]

\* on with an array of listeners in place of the Set: a listener registered
\* again is held again
on_Array(s, pInstance, pEventName, pListener) ==
    LET events1 == IF pInstance \notin DOMAIN s.events
                   THEN MapPut(s.events, pInstance, <<>>)
                   ELSE s.events
        instanceEvents == events1[pInstance]
        instanceEvents1 == IF pEventName \notin DOMAIN instanceEvents
                           THEN MapPut(instanceEvents, pEventName, <<>>)
                           ELSE instanceEvents
        listeners1 == Append(instanceEvents1[pEventName], pListener)
    IN  [s EXCEPT !.events =
            MapPut(events1, pInstance, MapPut(instanceEvents1, pEventName, listeners1))]

\* EventEmitter.on
on(s, pInstance, pEventName, pListener) ==
    LET events1 == IF pInstance \notin DOMAIN s.events
                   THEN MapPut(s.events, pInstance, <<>>)
                   ELSE s.events
        instanceEvents == events1[pInstance]
        instanceEvents1 == IF pEventName \notin DOMAIN instanceEvents
                           THEN MapPut(instanceEvents, pEventName, <<>>)
                           ELSE instanceEvents
        listeners == instanceEvents1[pEventName]
        \* Set.add: a listener already in the Set keeps its place
        listeners1 == IF Has(listeners, pListener) THEN listeners
                      ELSE Append(listeners, pListener)
    IN  [s EXCEPT !.events =
            MapPut(events1, pInstance, MapPut(instanceEvents1, pEventName, listeners1))]

\* EventEmitter.off
off(s, pInstance, pEventName, pListener) ==
    IF pInstance \in DOMAIN s.events
    THEN LET instanceEvents == s.events[pInstance]
             instanceEvents1 ==
                 IF pEventName \in DOMAIN instanceEvents
                 THEN LET listeners == Without(instanceEvents[pEventName], pListener)
                      IN  IF Len(listeners) = 0
                          THEN MapDrop(instanceEvents, pEventName)
                          ELSE MapPut(instanceEvents, pEventName, listeners)
                 ELSE instanceEvents
         IN  IF DOMAIN instanceEvents1 = {}
             THEN [s EXCEPT !.events = MapDrop(s.events, pInstance)]
             ELSE [s EXCEPT !.events = MapPut(s.events, pInstance, instanceEvents1)]
    ELSE s

\* forEach without the try / catch: a listener's exception ends the delivery
\* and leaves emit
RECURSIVE forEachListener_NoCatch(_, _, _)
forEachListener_NoCatch(s, listeners, k) ==
    IF k > Len(listeners) THEN s
    ELSE LET s1 == [s EXCEPT !.invoked[listeners[k]] = @ + 1]
         IN  IF Throws(listeners[k])
             THEN [s1 EXCEPT !.thrown = TRUE]
             ELSE forEachListener_NoCatch(s1, listeners, k + 1)

\* forEach((pListener) => { try { pListener(...) } catch { console.error(...) } })
RECURSIVE forEachListener(_, _, _)
forEachListener(s, listeners, k) ==
    IF k > Len(listeners) THEN s
    ELSE LET s1 == [s EXCEPT !.invoked[listeners[k]] = @ + 1]
             s2 == IF Throws(listeners[k])
                   THEN [s1 EXCEPT !.consoleErrors = @ + 1]
                   ELSE s1
         IN  forEachListener(s2, listeners, k + 1)

\* what a listener sees when it is invoked for pInstance: every clone held in
\* the instance's record is at the instance's position plus its offset
InSync(s, pInstance) ==
    pInstance \in DOMAIN s.instanceWeakMap =>
        \A k \in DOMAIN s.diobs :
            (\/ Has(s.instanceWeakMap[pInstance].horizontalChildren, k)
             \/ Has(s.instanceWeakMap[pInstance].verticalChildren, k))
            => /\ s.diobs[k].x = s.obj[pInstance].x + s.diobs[k].relativeX
               /\ s.diobs[k].y = s.obj[pInstance].y + s.diobs[k].relativeY

\* EventEmitter.emit
emit(s, pInstance, pEventName) ==
    IF pInstance \in DOMAIN s.events /\ pEventName \in DOMAIN s.events[pInstance]
    THEN LET listeners == s.events[pInstance][pEventName]
             s1 == IF InSync(s, pInstance) THEN s
                   ELSE [s EXCEPT !.outOfSync = @ + Len(listeners)]
         IN  forEachListener(s1, listeners, 1)
    ELSE s

\* this.events.emit(pInstance, 'MoveEvent')
emitMoveEvent(s, pInstance) ==
    emit([s EXCEPT !.emitted[pInstance] = @ + 1], pInstance, "MoveEvent")

----------------------------------------------------------------------------
(* Tiling clones *)

\* createLoopInstances: a new clone, not cullable, looking like pInstance
NewClone(pInstance, x, y, mapName) ==
    [parent |-> pInstance, isCullable |-> FALSE,
     x |-> x, y |-> y, mapName |-> mapName,
     relativeX |-> 0, relativeY |-> 0]

\* children.forEach: record each clone's offset from the main instance
WithRelative(s, pInstance, children) ==
    [s EXCEPT !.diobs =
        [k \in DOMAIN s.diobs |->
            IF Has(children, k)
            THEN [s.diobs[k] EXCEPT !.relativeX = s.diobs[k].x - s.obj[pInstance].x,
                                    !.relativeY = s.diobs[k].y - s.obj[pInstance].y]
            ELSE s.diobs[k]]]

toggleInfiniteHorizontal(s, pInstance) ==
    LET me == s.obj[pInstance]
        width == Times(IconWidth(pInstance), ScaleX(pInstance))
        left == NewClone(pInstance, me.x - width, me.y, me.mapName)
        right == NewClone(pInstance, me.x + width, me.y, me.mapName)
        children == <<Len(s.diobs) + 1, Len(s.diobs) + 2>>
        s1 == [s EXCEPT !.diobs = @ \o <<left, right>>]
        s2 == IF pInstance \in DOMAIN s1.instanceWeakMap
              THEN [s1 EXCEPT !.instanceWeakMap[pInstance].horizontalChildren = children]
              ELSE s1
    IN  WithRelative(s2, pInstance, children)

\* toggleInfiniteVertical that places the clones half a tile away
toggleInfiniteVertical_HalfTile(s, pInstance) ==
    LET me == s.obj[pInstance]
        height == HalfOf(Times(IconHeight(pInstance), ScaleY(pInstance)))
        top == NewClone(pInstance, me.x, me.y - height, me.mapName)
        bottom == NewClone(pInstance, me.x, me.y + height, me.mapName)
        children == <<Len(s.diobs) + 1, Len(s.diobs) + 2>>
        s1 == [s EXCEPT !.diobs = @ \o <<top, bottom>>]
        s2 == IF pInstance \in DOMAIN s1.instanceWeakMap
              THEN [s1 EXCEPT !.instanceWeakMap[pInstance].verticalChildren = children]
              ELSE s1
    IN  WithRelative(s2, pInstance, children)

toggleInfiniteVertical(s, pInstance) ==
    LET me == s.obj[pInstance]
        height == Times(IconHeight(pInstance), ScaleY(pInstance))
        top == NewClone(pInstance, me.x, me.y - height, me.mapName)
        bottom == NewClone(pInstance, me.x, me.y + height, me.mapName)
        children == <<Len(s.diobs) + 1, Len(s.diobs) + 2>>
        s1 == [s EXCEPT !.diobs = @ \o <<top, bottom>>]
        s2 == IF pInstance \in DOMAIN s1.instanceWeakMap
              THEN [s1 EXCEPT !.instanceWeakMap[pInstance].verticalChildren = children]
              ELSE s1
    IN  WithRelative(s2, pInstance, children)

toggleInfinitePlanes(s, pInstance) ==
    toggleInfiniteVertical(toggleInfiniteHorizontal(s, pInstance), pInstance)

\* children.forEach of handleOnRelocated: move the clones to parent + offset
Relocate(s, pInstance, children) ==
    [s EXCEPT !.diobs =
        [k \in DOMAIN s.diobs |->
            IF Has(children, k)
            THEN [s.diobs[k] EXCEPT !.x = s.obj[pInstance].x + s.diobs[k].relativeX,
                                    !.y = s.obj[pInstance].y + s.diobs[k].relativeY]
            ELSE s.diobs[k]]]

handleOnRelocated(s, pInstance) ==
    IF pInstance \notin DOMAIN s.instanceWeakMap THEN s
    ELSE LET parallaxConfig == s.instanceWeakMap[pInstance]
         IN  Relocate(Relocate(s, pInstance, parallaxConfig.verticalChildren),
                      pInstance, parallaxConfig.horizontalChildren)

----------------------------------------------------------------------------
(* The per-instance update *)

\* const isBackgroundX = !ground && horizontalSpeed === 0
isBackground(ground, speed, type) == ~ground /\ type = "number" /\ speed = 0

\* lastCamPosOf that reads the anchors in every tick, also when updateInstance
\* is called without pAnchor
lastCamPosOf_AnchorAlways(stored, ground, pAnchor, globalAnchor, ownAnchor) ==
    LET anchor == IF ~ground THEN OrElse(globalAnchor, ownAnchor) ELSE None
    IN  IF IsNumber(anchor) THEN anchor[1] ELSE Nullish(stored, 0)

\* the reference last camera coordinate of one axis: the stored one (0 when
\* null), replaced inside "if (!ground) { if (pAnchor) ..." by the number
\* getAnchor() || pAnchor
lastCamPosOf(stored, ground, pAnchor, globalAnchor, ownAnchor) ==
    LET anchor == IF ~ground /\ pAnchor # None THEN OrElse(globalAnchor, ownAnchor)
                  ELSE None
    IN  IF IsNumber(anchor) THEN anchor[1] ELSE Nullish(stored, 0)

\* positionOf with the distance taken from the camera coordinate itself
positionOf_Absolute(pos, background, pCamera, size, lastCam, speed) ==
    IF background THEN pCamera - HalfOf(size)
    ELSE pos + Times(pCamera, speed)

\* positionOf with a background axis moved by the camera delta like any other
positionOf_Drift(pos, background, pCamera, size, lastCam, speed) ==
    IF background THEN pos + (pCamera - lastCam)
    ELSE pos + Times(pCamera - lastCam, speed)

\* the coordinate computed on one axis inside "if (!ground)"
positionOf(pos, background, pCamera, size, lastCam, speed) ==
    IF background THEN pCamera - HalfOf(size)
    ELSE LET delta == pCamera - lastCam
             dist == Times(delta, speed)
         IN  pos + dist

\* setPosition without the test for a ground instance
setPosition_Always(ground, pos, computed) == computed

\* "if (!ground) { ...; pInstance.x = x }": a ground instance keeps its coordinate
setPosition(ground, pos, computed) == IF ground THEN pos ELSE computed

\* loops without the test of the other axis's background mode
loops_Alone(isBackgroundX, isBackgroundY, infinite, lastCam, pCamera) ==
    infinite /\ lastCam # pCamera

\* the test that guards the tiling of one axis
loops(isBackgroundX, isBackgroundY, infinite, lastCam, pCamera) ==
    ~isBackgroundX /\ ~isBackgroundY /\ infinite /\ lastCam # pCamera

\* WrapShift with the backward threshold not rounded down
WrapShift_NoFloor(pos, size, pCamera) ==
    IF pCamera > pos + size THEN 1
    ELSE IF 6 * pCamera < 6 * pos - size THEN 0 - 1
    ELSE 0

\* WrapShift that shifts forward as soon as the camera passes the start of the
\* instance
WrapShift_Eager(pos, size, pCamera) ==
    LET start == FloorOfMinusSixth(pos, size)
    IN  IF pCamera > pos THEN 1
        ELSE IF pCamera < start THEN 0 - 1
        ELSE 0

\* the tiling test on one axis: +1 for a forward shift, -1 for a backward one
WrapShift(pos, size, pCamera) ==
    LET end == pos + size
        start == FloorOfMinusSixth(pos, size)
    IN  IF pCamera > end THEN 1
        ELSE IF pCamera < start THEN 0 - 1
        ELSE 0

\* relocated that emits the MoveEvent before it moves the clones
relocated_EmitFirst(s, pInstance, infinite, moved) ==
    LET s1 == IF moved THEN emitMoveEvent(s, pInstance) ELSE s
    IN  IF moved /\ infinite THEN handleOnRelocated(s1, pInstance) ELSE s1

\* "if (old !== current) { if (infinite) handleOnRelocated; emit }"
relocated(s, pInstance, infinite, moved) ==
    LET s1 == IF moved /\ infinite THEN handleOnRelocated(s, pInstance) ELSE s
    IN  IF moved THEN emitMoveEvent(s1, pInstance) ELSE s1

\* updateInstance(pInstance, pCameraX, pCameraY, pAnchor); pAnchor is None
\* when the argument is omitted
updateInstance(s, pInstance, pCameraX, pCameraY, pAnchor) ==
    IF pInstance \notin DOMAIN s.instanceWeakMap THEN s
    ELSE
    LET parallaxConfig == s.instanceWeakMap[pInstance]
        me == s.obj[pInstance]
        infiniteHorizontal == parallaxConfig.infiniteHorizontal
        infiniteVertical == parallaxConfig.infiniteVertical
        ground == parallaxConfig.ground
        \* the speeds as numbers: in deltaX * horizontalSpeed a null or a false
        \* is the number 0
        horizontalSpeed == parallaxConfig.horizontalSpeed
        verticalSpeed == parallaxConfig.verticalSpeed
        isBackgroundX == isBackground(ground, horizontalSpeed,
                                      parallaxConfig.typeOf.horizontalSpeed)
        isBackgroundY == isBackground(ground, verticalSpeed,
                                      parallaxConfig.typeOf.verticalSpeed)
        width == Times(IconWidth(pInstance), ScaleX(pInstance))
        height == Times(IconHeight(pInstance), ScaleY(pInstance))
        lastCamPosX == lastCamPosOf(s.lastCamPos.x, ground, pAnchor, getAnchorX(s),
                                    IF pAnchor # None THEN pAnchor[1].x ELSE None)
        lastCamPosY == lastCamPosOf(s.lastCamPos.y, ground, pAnchor, getAnchorY(s),
                                    IF pAnchor # None THEN pAnchor[1].y ELSE None)
        x == setPosition(ground, me.x,
                 positionOf(me.x, isBackgroundX, pCameraX, width, lastCamPosX,
                            horizontalSpeed))
        y == setPosition(ground, me.y,
                 positionOf(me.y, isBackgroundY, pCameraY, height, lastCamPosY,
                            verticalSpeed))
        shiftX == IF loops(isBackgroundX, isBackgroundY, infiniteHorizontal,
                           lastCamPosX, pCameraX)
                  THEN WrapShift(x, width, pCameraX) ELSE 0
        shiftY == IF loops(isBackgroundX, isBackgroundY, infiniteVertical,
                           lastCamPosY, pCameraY)
                  THEN WrapShift(y, height, pCameraY) ELSE 0
        newX == x + shiftX * width
        newY == y + shiftY * height
        infinite == infiniteHorizontal \/ infiniteVertical
        moved == me._parallaxOldX # Some(newX) \/ me._parallaxOldY # Some(newY)
        s1 == [s EXCEPT !.obj[pInstance].x = newX, !.obj[pInstance].y = newY,
                        !.shift[pInstance] = [x |-> shiftX, y |-> shiftY]]
        s2 == relocated(s1, pInstance, infinite, moved)
    IN  [s2 EXCEPT !.obj[pInstance]._parallaxOldX = Some(newX),
                   !.obj[pInstance]._parallaxOldY = Some(newY)]

----------------------------------------------------------------------------
(* add, init, remove, update *)

\* baseline with the test for a stored last camera position left out
baseline_Always(s, cam) ==
    IF cam.x # None /\ cam.y # None
    THEN setLastCamPos(s, cam.x[1], cam.y[1])
    ELSE s

\* "if (!this.hasLastCamPos() && x !== null && y !== null) setLastCamPos(x, y)"
baseline(s, cam) ==
    IF ~hasLastCamPos(s) /\ cam.x # None /\ cam.y # None
    THEN setLastCamPos(s, cam.x[1], cam.y[1])
    ELSE s

\* init without the test of the VYLO global
initWithHost(s, pInstance, pConfig, viewEye) ==
    LET cam == getCamPos(viewEye)
        s1 == baseline(s, cam)
        s2 == IF pConfig.ground /\ cam.x # None
              THEN [s1 EXCEPT
                      !.obj[pInstance].x =
                          cam.x[1] - HalfOf(Times(IconWidth(pInstance), ScaleX(pInstance))),
                      !.obj[pInstance].y = pConfig.groundY,
                      !.obj[pInstance].mapName = pConfig.groundMapname]
              ELSE IF cam.x # None /\ cam.y # None
              THEN updateInstance(s1, pInstance, cam.x[1], cam.y[1],
                                  Some([x |-> pConfig.cameraAnchorX,
                                        y |-> pConfig.cameraAnchorY]))
              ELSE s1
    IN  IF pConfig.infiniteHorizontal /\ pConfig.infiniteVertical
        THEN toggleInfinitePlanes(s2, pInstance)
        ELSE IF pConfig.infiniteHorizontal THEN toggleInfiniteHorizontal(s2, pInstance)
        ELSE IF pConfig.infiniteVertical THEN toggleInfiniteVertical(s2, pInstance)
        ELSE s2

\* init: !VYLO raises a ReferenceError when the global is not declared, and
\* logs an error and returns when it is declared and undefined
init(s, pInstance, pConfig, viewEye) ==
    IF s.VYLO = "undeclared" THEN [s EXCEPT !.thrown = TRUE]
    ELSE IF s.VYLO = "undefined" THEN logError(s)
    ELSE initWithHost(s, pInstance, pConfig, viewEye)

\* CopyOf that returns the caller's object itself
CopyOf_SameObject(pConfig) ==
    [object |-> "caller",
     horizontalSpeed |-> pConfig.horizontalSpeed,
     verticalSpeed |-> pConfig.verticalSpeed,
     typeOf |-> pConfig.typeOf,
     infiniteHorizontal |-> pConfig.infiniteHorizontal,
     infiniteVertical |-> pConfig.infiniteVertical,
     cameraAnchorX |-> pConfig.cameraAnchorX,
     cameraAnchorY |-> pConfig.cameraAnchorY,
     ground |-> pConfig.ground,
     groundY |-> pConfig.groundY,
     groundMapname |-> pConfig.groundMapname,
     horizontalChildren |-> <<>>,
     verticalChildren |-> <<>>]

\* the private copy { ...pConfig } stored for the instance: a new object
\* ("private"), not the object the caller holds ("caller")
CopyOf(pConfig) ==
    [object |-> "private",
     horizontalSpeed |-> pConfig.horizontalSpeed,
     verticalSpeed |-> pConfig.verticalSpeed,
     typeOf |-> pConfig.typeOf,
     infiniteHorizontal |-> pConfig.infiniteHorizontal,
     infiniteVertical |-> pConfig.infiniteVertical,
     cameraAnchorX |-> pConfig.cameraAnchorX,
     cameraAnchorY |-> pConfig.cameraAnchorY,
     ground |-> pConfig.ground,
     groundY |-> pConfig.groundY,
     groundMapname |-> pConfig.groundMapname,
     horizontalChildren |-> <<>>,
     verticalChildren |-> <<>>]

\* instanceWeakMap.set(pInstance, parallaxConfig)
MapSet(s, pInstance, parallaxConfig) ==
    [s EXCEPT !.instanceWeakMap =
        [k \in DOMAIN s.instanceWeakMap \cup {pInstance} |->
            IF k = pInstance THEN parallaxConfig ELSE s.instanceWeakMap[k]]]

\* instanceWeakMap.delete(pInstance)
MapDelete(s, pInstance) ==
    [s EXCEPT !.instanceWeakMap =
        [k \in DOMAIN s.instanceWeakMap \ {pInstance} |-> s.instanceWeakMap[k]]]

\* add without the test for an instance that is already tracked
add_NoHasCheck(s, pInstance, pConfig, viewEye) ==
    IF pInstance = NullRef THEN logError(s)
    ELSE IF pConfig.kind = "object"
    THEN LET parallaxConfig == CopyOf(pConfig)
             s1 == MapSet(s, pInstance, parallaxConfig)
             s2 == [s1 EXCEPT !.instances = Append(Without(@, pInstance), pInstance)]
         IN  init(s2, pInstance, parallaxConfig, viewEye)
    ELSE logError(s)

\* add without the return that follows the first error
add_NoReturn(s, pInstance, pConfig, viewEye) ==
    LET s0 == IF pInstance = NullRef THEN logError(s) ELSE s
    IN  IF pConfig.kind = "object"
        THEN IF pInstance # NullRef /\ ~Has(s0.instances, pInstance)
             THEN LET parallaxConfig == CopyOf(pConfig)
                      s1 == MapSet(s0, pInstance, parallaxConfig)
                      s2 == [s1 EXCEPT !.instances = Append(@, pInstance)]
                  IN  init(s2, pInstance, parallaxConfig, viewEye)
             ELSE s0
        ELSE logError(s0)

add(s, pInstance, pConfig, viewEye) ==
    IF pInstance = NullRef THEN logError(s)
    ELSE IF pConfig.kind = "object"
    THEN IF ~Has(s.instances, pInstance)
         THEN LET parallaxConfig == CopyOf(pConfig)
                  s1 == MapSet(s, pInstance, parallaxConfig)
                  s2 == [s1 EXCEPT !.instances = Append(@, pInstance)]
                  \* pInstance.setPos(x, y, mapName) with the values just read
                  \* from pInstance leaves x, y and mapName as they are
              IN  init(s2, pInstance, parallaxConfig, viewEye)
         ELSE s
    ELSE logError(s)

\* remove that also folds the instance's tiling clones onto the instance
remove_CollapseClones(s, pInstance) ==
    IF pInstance = NullRef THEN logError(s)
    ELSE IF Has(s.instances, pInstance)
    THEN LET s1 == [s EXCEPT !.diobs =
                      [k \in DOMAIN s.diobs |->
                          IF s.diobs[k].parent = pInstance
                          THEN [s.diobs[k] EXCEPT !.x = s.obj[pInstance].x,
                                                  !.y = s.obj[pInstance].y]
                          ELSE s.diobs[k]]]
         IN  MapDelete([s1 EXCEPT !.instances = Without(@, pInstance)], pInstance)
    ELSE s

\* remove that leaves the configuration record in the WeakMap
remove_KeepRecord(s, pInstance) ==
    IF pInstance = NullRef THEN logError(s)
    ELSE IF Has(s.instances, pInstance)
    THEN [s EXCEPT !.instances = Without(@, pInstance)]
    ELSE s

\* remove with the membership test inverted
remove_Inverted(s, pInstance) ==
    IF pInstance = NullRef THEN logError(s)
    ELSE IF ~Has(s.instances, pInstance)
    THEN MapDelete([s EXCEPT !.instances = Without(@, pInstance)], pInstance)
    ELSE s

remove(s, pInstance) ==
    IF pInstance = NullRef THEN logError(s)
    ELSE IF Has(s.instances, pInstance)
    THEN MapDelete([s EXCEPT !.instances = Without(@, pInstance)], pInstance)
    ELSE s

\* updateEach that replaces the stored last camera position after each instance
RECURSIVE updateEach_StoreEach(_, _, _, _)
updateEach_StoreEach(s, k, pCameraX, pCameraY) ==
    IF k > Len(s.instances) THEN s
    ELSE updateEach_StoreEach(
             setLastCamPos(updateInstance(s, s.instances[k], pCameraX, pCameraY, None),
                           pCameraX, pCameraY),
             k + 1, pCameraX, pCameraY)

\* for (const instance of this.instances) updateInstance(instance, pCameraX, pCameraY)
RECURSIVE updateEach(_, _, _, _)
updateEach(s, k, pCameraX, pCameraY) ==
    IF k > Len(s.instances) THEN s
    ELSE updateEach(updateInstance(s, s.instances[k], pCameraX, pCameraY, None),
                    k + 1, pCameraX, pCameraY)

\* a parameter with default value 0
DefaultZero(arg) == IF arg = None THEN 0 ELSE arg[1]

\* update that does not store the camera position of the tick
update_NoStore(s, argX, argY) ==
    updateEach(s, 1, DefaultZero(argX), DefaultZero(argY))

update(s, argX, argY) ==
    LET pCameraX == DefaultZero(argX)
        pCameraY == DefaultZero(argY)
        s1 == updateEach(s, 1, pCameraX, pCameraY)
    IN  [s1 EXCEPT !.lastCamPos = [x |-> Some(pCameraX), y |-> Some(pCameraY)]]

----------------------------------------------------------------------------
(* Layer *)

\* logger.prefix('Parallax-Module').warn(...)
logWarning(s) == [s EXCEPT !.warnings = @ + 1]

\* a value passed where a speed or a plane is expected
Number(n) == [type |-> "number", value |-> n]
Undefined == [type |-> "undefined", value |-> 0]
StringValue == [type |-> "string", value |-> 0]
\* null and false; value is what the value is as a number
Null == [type |-> "null", value |-> 0]
False == [type |-> "boolean", value |-> 0]
\* the value is truthy: a number other than 0, or a (non-empty) string
Truthy(v) == (v.type = "number" /\ v.value # 0) \/ v.type = "string"

\* the Layer object as its field initialisers leave it
NewLayerObject ==
    [constructed |-> FALSE, added |-> {}, ever |-> {},
     config |-> [horizontalSpeed |-> 0, verticalSpeed |-> 0, typeOf |-> NumberSpeeds,
                 plane |-> Whole(1),
                 backgrounds |-> <<>>, instances |-> <<>>]]

\* forEach(update) over a Set of instances: parallaxInfo[field] = value
RECURSIVE setSpeedOfEach(_, _, _, _, _)
setSpeedOfEach(s, set, k, field, pSpeed) ==
    IF k > Len(set) THEN s
    ELSE LET pInstance == set[k]
             s1 == IF pInstance \in DOMAIN s.instanceWeakMap /\ pSpeed.type # "undefined"
                   THEN [s EXCEPT !.instanceWeakMap[pInstance][field] = pSpeed.value,
                                  !.instanceWeakMap[pInstance].typeOf[field] = pSpeed.type]
                   ELSE s
         IN  setSpeedOfEach(s1, set, k + 1, field, pSpeed)

\* updateSpeed that never writes the instances' configuration records
updateSpeed_LayerOnly(s, field, pSpeed, pUpdateLayerConfigOnly) ==
    LET inValid == Truthy(pSpeed) /\ pSpeed.type # "number"
    IN  IF inValid THEN logWarning(s)
        ELSE IF pSpeed.type # "undefined"
        THEN [s EXCEPT !.layer.config[field] = pSpeed.value,
                         !.layer.config.typeOf[field] = pSpeed.type]
        ELSE s

\* the common body of updateHorizontalSpeed and updateVerticalSpeed
updateSpeed(s, field, pSpeed, pUpdateLayerConfigOnly) ==
    LET inValid == Truthy(pSpeed) /\ pSpeed.type # "number"
    IN  IF inValid THEN logWarning(s)
        ELSE LET s1 == IF pSpeed.type # "undefined"
                       THEN [s EXCEPT !.layer.config[field] = pSpeed.value,
                         !.layer.config.typeOf[field] = pSpeed.type]
                       ELSE s
             IN  IF ~pUpdateLayerConfigOnly
                 THEN setSpeedOfEach(
                          setSpeedOfEach(s1, s1.layer.config.instances, 1, field, pSpeed),
                          s1.layer.config.backgrounds, 1, field, pSpeed)
                 ELSE s1

updateHorizontalSpeed(s, pHorizontalSpeed, pUpdateLayerConfigOnly) ==
    updateSpeed(s, "horizontalSpeed", pHorizontalSpeed, pUpdateLayerConfigOnly)

updateVerticalSpeed(s, pVerticalSpeed, pUpdateLayerConfigOnly) ==
    updateSpeed(s, "verticalSpeed", pVerticalSpeed, pUpdateLayerConfigOnly)

updateConfigSpeed(s, pConfig, pUpdateLayerConfigOnly) ==
    updateVerticalSpeed(
        updateHorizontalSpeed(s, pConfig.horizontalSpeed, pUpdateLayerConfigOnly),
        pConfig.verticalSpeed, pUpdateLayerConfigOnly)

\* the personal configuration passed to Layer.add: every field may be absent
Personal(hs, vs, ih, iv, ax, ay, g, gy, gm) ==
    [horizontalSpeed |-> hs, verticalSpeed |-> vs,
     infiniteHorizontal |-> ih, infiniteVertical |-> iv,
     cameraAnchorX |-> ax, cameraAnchorY |-> ay,
     ground |-> g, groundY |-> gy, groundMapname |-> gm]

\* pConfig?.field: undefined when pConfig is omitted
FieldOf(pConfig, field) == IF pConfig = None THEN None ELSE pConfig[1][field]

\* layerAdd that lets the personal configuration override the layer's speeds
layerAdd_PersonalSpeeds(s, pInstance, pConfig, viewEye) ==
    IF Has(s.layer.config.instances, pInstance)
    THEN [s EXCEPT !.layer.added = @ \cup {pInstance},
                   !.layer.ever = @ \cup {pInstance}]
    ELSE LET s1 == [s EXCEPT !.layer.config.instances = Append(@, pInstance),
                             !.layer.added = @ \cup {pInstance},
                             !.layer.ever = @ \cup {pInstance}]
             isGround == Nullish(FieldOf(pConfig, "ground"), FALSE)
             groundY == IF isGround THEN FieldOf(pConfig, "groundY") ELSE None
             groundMapname == IF isGround THEN FieldOf(pConfig, "groundMapname") ELSE None
             config ==
                 [kind |-> "object",
                  horizontalSpeed |-> Nullish(FieldOf(pConfig, "horizontalSpeed"),
                                              s1.layer.config.horizontalSpeed),
                  verticalSpeed |-> Nullish(FieldOf(pConfig, "verticalSpeed"),
                                            s1.layer.config.verticalSpeed),
                  typeOf |-> s1.layer.config.typeOf,
                  infiniteHorizontal |-> Nullish(FieldOf(pConfig, "infiniteHorizontal"), FALSE),
                  infiniteVertical |-> Nullish(FieldOf(pConfig, "infiniteVertical"), FALSE),
                  cameraAnchorX |-> FieldOf(pConfig, "cameraAnchorX"),
                  cameraAnchorY |-> FieldOf(pConfig, "cameraAnchorY"),
                  ground |-> isGround,
                  groundY |-> Nullish(groundY, 0),
                  groundMapname |-> Nullish(groundMapname, "undefined")]
             s2 == [s1 EXCEPT !.obj[pInstance].plane = Some(s1.layer.config.plane)]
         IN  add(s2, pInstance, config, viewEye)

\* Layer.add
layerAdd(s, pInstance, pConfig, viewEye) ==
    IF Has(s.layer.config.instances, pInstance)
    THEN [s EXCEPT !.layer.added = @ \cup {pInstance},
                   !.layer.ever = @ \cup {pInstance}]
    ELSE LET s1 == [s EXCEPT !.layer.config.instances = Append(@, pInstance),
                             !.layer.added = @ \cup {pInstance},
                             !.layer.ever = @ \cup {pInstance}]
             isGround == Nullish(FieldOf(pConfig, "ground"), FALSE)
             groundY == IF isGround THEN FieldOf(pConfig, "groundY") ELSE None
             groundMapname == IF isGround THEN FieldOf(pConfig, "groundMapname") ELSE None
             config ==
                 [kind |-> "object",
                  horizontalSpeed |-> s1.layer.config.horizontalSpeed,
                  verticalSpeed |-> s1.layer.config.verticalSpeed,
                  typeOf |-> s1.layer.config.typeOf,
                  infiniteHorizontal |-> Nullish(FieldOf(pConfig, "infiniteHorizontal"), FALSE),
                  infiniteVertical |-> Nullish(FieldOf(pConfig, "infiniteVertical"), FALSE),
                  cameraAnchorX |-> FieldOf(pConfig, "cameraAnchorX"),
                  cameraAnchorY |-> FieldOf(pConfig, "cameraAnchorY"),
                  ground |-> isGround,
                  \* a field left out of the object is read by nobody when ground
                  \* is false; a ground instance is always given both fields
                  groundY |-> Nullish(groundY, 0),
                  groundMapname |-> Nullish(groundMapname, "undefined")]
             s2 == [s1 EXCEPT !.obj[pInstance].plane = Some(s1.layer.config.plane)]
         IN  add(s2, pInstance, config, viewEye)

\* Layer.getInstances and Layer.getBackgrounds of a Layer object
getInstances(pLayer) == pLayer.config.instances
getBackgrounds(pLayer) == pLayer.config.backgrounds

\* Layer.remove
layerRemove(s, pInstance) ==
    remove([s EXCEPT !.layer.config.instances = Without(@, pInstance),
                     !.layer.added = @ \ {pInstance}], pInstance)

\* pList.forEach(pInstance => { pInstance.plane = plane; this.add(pInstance, pConfig) })
RECURSIVE layerAddEach(_, _, _, _, _)
layerAddEach(s, pList, k, pConfig, viewEye) ==
    IF k > Len(pList) THEN s
    ELSE LET s1 == [s EXCEPT !.obj[pList[k]].plane = Some(s.layer.config.plane)]
         IN  layerAddEach(layerAdd(s1, pList[k], pConfig, viewEye), pList, k + 1,
                          pConfig, viewEye)

\* new Layer(pConfig)
newLayer(s, pConfig, viewEye) ==
    LET s1 == updateConfigSpeed([s EXCEPT !.layer.constructed = TRUE], pConfig, TRUE)
        s2 == IF pConfig.plane.type # "number" THEN logWarning(s1)
              ELSE [s1 EXCEPT !.layer.config.plane = pConfig.plane.value]
        instanceConfig ==
            Personal(Some(s2.layer.config.horizontalSpeed),
                     Some(s2.layer.config.verticalSpeed),
                     Some(FALSE), Some(FALSE),
                     pConfig.cameraAnchorX, pConfig.cameraAnchorY, None, None, None)
        tiling ==
            [instanceConfig EXCEPT
                !.infiniteHorizontal = Some(Nullish(pConfig.infiniteHorizontal, FALSE)),
                !.infiniteVertical = Some(Nullish(pConfig.infiniteVertical, FALSE))]
        s3 == layerAddEach(s2, pConfig.instances, 1, Some(instanceConfig), viewEye)
        s4 == layerAddEach(s3, pConfig.backgrounds, 1, Some(tiling), viewEye)
    IN  IF pConfig.ground # None
        THEN layerAddEach(s4, pConfig.ground, 1,
                          Some([tiling EXCEPT !.ground = Some(TRUE),
                                              !.groundY = pConfig.groundY,
                                              !.groundMapname = pConfig.groundMapname]),
                          viewEye)
        ELSE s4

----------------------------------------------------------------------------
(* The state machine *)

InitEngine ==
    /\ instances = <<>>
    /\ instanceWeakMap = <<>>
    /\ obj = [i \in Instances |-> NewObject(i)]
    /\ diobs = <<>>
    /\ lastCamPos = [x |-> None, y |-> None]
    /\ cameraAnchor = [x |-> None, y |-> None]
    /\ anchorXSet = FALSE
    /\ anchorYSet = FALSE
    /\ call = [name |-> "new", instance |-> NullRef, kind |-> "none",
               x |-> None, y |-> None, errors |-> 0, warnings |-> 0, afterUpdate |-> FALSE, tracked |-> FALSE,
               ref |-> [x |-> None, y |-> None]]
    /\ emitted = [i \in Instances |-> 0]
    /\ shift = [i \in Instances |-> NoShift]
    /\ removed = {}
    /\ events = <<>>
    /\ invoked = [l \in Listeners |-> 0]
    /\ consoleErrors = 0
    /\ thrown = FALSE
    /\ callerConfig = [i \in Instances |-> None]
    /\ layer = NewLayerObject
    /\ onCalls = [r \in Instances \X EventNames \X Listeners |-> 0]
    /\ outOfSync = 0
    /\ steps = 0

\* the module loaded in a host whose global VYLO is the host engine
Init ==
    /\ InitEngine
    /\ VYLO = "object"

\* the engine's state after a call
Becomes(s) ==
    /\ instances' = s.instances
    /\ instanceWeakMap' = s.instanceWeakMap
    /\ obj' = s.obj
    /\ diobs' = s.diobs
    /\ lastCamPos' = s.lastCamPos
    /\ cameraAnchor' = s.cameraAnchor
    /\ anchorXSet' = s.anchorXSet
    /\ anchorYSet' = s.anchorYSet
    /\ emitted' = s.emitted
    /\ shift' = s.shift
    /\ events' = s.events
    /\ invoked' = s.invoked
    /\ consoleErrors' = s.consoleErrors
    /\ thrown' = s.thrown
    /\ callerConfig' = s.callerConfig
    /\ layer' = s.layer
    /\ VYLO' = s.VYLO
    /\ onCalls' = s.onCalls
    /\ outOfSync' = s.outOfSync
    /\ steps' = steps + 1

\* the record of a call: its name, its pInstance, the kind of its pConfig (for
\* on, off and emit: the event name), the errors and warnings it logged, its
\* camera coordinates (update: the arguments; add: what the camera accessor
\* returned), the errors it logged, whether the call before it was an update,
\* whether pInstance was tracked and what the stored last camera position was
\* when it began
Called(name, pInstance, kind, x, y, s) ==
    call' = [name |-> name, instance |-> pInstance, kind |-> kind, x |-> x, y |-> y,
             errors |-> s.errors, warnings |-> s.warnings, afterUpdate |-> (call.name = "update"),
             tracked |-> Has(instances, pInstance), ref |-> lastCamPos]

Add(pInstance, pConfig, viewEye) ==
    /\ LET s == add(Engine, pInstance, pConfig, viewEye)
       IN  /\ Becomes(s)
           /\ Called("add", pInstance, pConfig.kind, getCamPos(viewEye).x,
                     getCamPos(viewEye).y, s)
           /\ removed' = IF pInstance # NullRef /\ pConfig.kind = "object"
                         THEN removed \ {pInstance} ELSE removed

Remove(pInstance) ==
    /\ LET s == remove(Engine, pInstance)
       IN  /\ Becomes(s)
           /\ Called("remove", pInstance, "none", None, None, s)
           /\ removed' = IF Has(instances, pInstance)
                         THEN removed \cup {pInstance} ELSE removed

Update(argX, argY) ==
    /\ LET s == update(Engine, argX, argY)
       IN  /\ Becomes(s)
           /\ Called("update", NullRef, "none", argX, argY, s)
           /\ UNCHANGED removed

SetCameraAnchor(pCameraAnchor) ==
    /\ LET s == setCameraAnchor(Engine, pCameraAnchor)
       IN  /\ Becomes(s)
           /\ Called("setCameraAnchor", NullRef, "none", pCameraAnchor.x,
                     pCameraAnchor.y, s)
           /\ UNCHANGED removed

ResetAnchor ==
    /\ LET s == resetAnchor(Engine)
       IN  /\ Becomes(s)
           /\ Called("resetAnchor", NullRef, "none", None, None, s)
           /\ UNCHANGED removed

Next ==
    /\ steps < MaxSteps
    /\ \/ \E pInstance \in Instances :
             \E pConfig \in ConfigsOf(pInstance), viewEye \in ViewEyesOf(pInstance) :
                Add(pInstance, pConfig, viewEye)
       \/ \E pInstance \in {"i1", NullRef}, pConfig \in NonObjects :
             Add(pInstance, pConfig, None)
       \/ \E pConfig \in ConfigsOf("i2") : Add(NullRef, pConfig, None)
       \/ \E pInstance \in Instances \cup {NullRef} : Remove(pInstance)
       \/ \E args \in CamArgs : Update(args[1], args[2])
       \/ \E pCameraAnchor \in AnchorPositions : SetCameraAnchor(pCameraAnchor)
       \/ ResetAnchor

Spec == Init /\ [][Next]_vars

----------------------------------------------------------------------------
(* Re-registration: one instance is added, removed and added again while the *)
(* camera moves to the right along y = 0                                     *)

\* the number of API calls explored by SpecReAdd
MaxReAddSteps == 5

ReAddConfigs ==
    { Cfg(0, SpeedOne, TRUE, FALSE, None, None, TRUE),
      Cfg(SpeedHalf, SpeedOne, FALSE, FALSE, None, None, FALSE) }

ReAddCams == { Whole(k * MaxCam) : k \in 0..2 }

NextReAdd ==
    /\ steps < MaxReAddSteps
    /\ \/ \E pConfig \in ReAddConfigs :
             Add("i1", pConfig, Some([x |-> Whole(0), y |-> Whole(0)]))
       \/ Remove("i1")
       \/ \E c \in ReAddCams : Update(Some(c), Some(Whole(0)))

SpecReAdd == Init /\ [][NextReAdd]_vars

----------------------------------------------------------------------------
(* Tiling over several ticks: one instance, moving against the camera, is    *)
(* registered and the camera moves on both axes                              *)

\* the number of API calls explored by SpecWrap
MaxWrapSteps == 4

WrapConfigs ==
    { \* tiling on both axes, on x only, and on neither
      Cfg(SpeedBack, SpeedBack, TRUE, TRUE, None, None, FALSE),
      Cfg(SpeedBack, SpeedBack, TRUE, FALSE, None, None, FALSE),
      Cfg(SpeedBack, SpeedBack, FALSE, FALSE, None, None, FALSE),
      \* one axis in background mode, both infinite flags set
      Cfg(SpeedBack, 0, TRUE, TRUE, None, None, FALSE),
      Cfg(0, SpeedBack, TRUE, TRUE, None, None, FALSE),
      \* a tiling ground instance
      Cfg(SpeedBack, SpeedBack, TRUE, FALSE, None, None, TRUE) }

WrapCams == {<<Whole(c * MaxCam), Whole(d * MaxCam)>> : c \in {-1, 0, 1}, d \in {0, 1}}

NextWrap ==
    /\ steps < MaxWrapSteps
    /\ \/ \E pConfig \in WrapConfigs :
             Add("i1", pConfig, Some([x |-> Whole(0), y |-> Whole(0)]))
       \/ Remove("i1")
       \/ \E args \in WrapCams : Update(Some(args[1]), Some(args[2]))

SpecWrap == Init /\ [][NextWrap]_vars

----------------------------------------------------------------------------
(* The host global: the module is used before, or without, the host engine   *)
(* being in the global name space                                            *)

\* the number of API calls explored by SpecHost
MaxHostSteps == 3

\* what the identifier VYLO is when the module's code reads it
HostStates == {"object", "undefined", "undeclared"}

HostConfigs ==
    { Cfg(SpeedHalf, SpeedOne, FALSE, FALSE, None, None, FALSE),
      Cfg(SpeedOne, SpeedOne, TRUE, FALSE, None, None, FALSE),
      Cfg(0, SpeedOne, FALSE, FALSE, None, None, TRUE) }

HostEyes == {None, Some([x |-> Whole(0), y |-> Whole(0)])}

InitHost ==
    /\ InitEngine
    /\ VYLO \in HostStates

\* the host engine's script is loaded and defines the global
HostLoads ==
    /\ VYLO # "object"
    /\ Becomes([Engine EXCEPT !.VYLO = "object"])
    /\ Called("host loads", NullRef, "none", None, None, Engine)
    /\ UNCHANGED removed

NextHost ==
    /\ steps < MaxHostSteps
    /\ \/ \E pInstance \in Instances, pConfig \in HostConfigs, viewEye \in HostEyes :
             Add(pInstance, pConfig, viewEye)
       \/ \E pInstance \in Instances : Remove(pInstance)
       \/ \E c \in {Whole(0), Whole(MaxCam)} : Update(Some(c), Some(Whole(0)))
       \/ HostLoads

SpecHost == InitHost /\ [][NextHost]_vars

----------------------------------------------------------------------------
(* Listeners: on, off and emit on the engine's EventEmitter, with one        *)
(* instance registered and updated by the engine                             *)

\* the number of API calls explored by SpecEvents
MaxEventSteps == 5

\* the (instance, event name, listener) triples passed to on and off
Registrations ==
    { <<"i1", "MoveEvent", l>> : l \in Listeners }
    \cup { <<"i1", "OtherEvent", "l1">>, <<"i2", "MoveEvent", "l1">> }

On(pInstance, pEventName, pListener) ==
    /\ LET s == on(Engine, pInstance, pEventName, pListener)
       IN  /\ Becomes([s EXCEPT !.onCalls[<<pInstance, pEventName, pListener>>] = @ + 1])
           /\ Called("on", pInstance, pEventName, None, None, s)
           /\ UNCHANGED removed

Off(pInstance, pEventName, pListener) ==
    /\ LET s == off(Engine, pInstance, pEventName, pListener)
       IN  /\ Becomes([s EXCEPT !.onCalls[<<pInstance, pEventName, pListener>>] = 0])
           /\ Called("off", pInstance, pEventName, None, None, s)
           /\ UNCHANGED removed

Emit(pInstance, pEventName) ==
    /\ LET s == emit(Engine, pInstance, pEventName)
       IN  /\ Becomes(s)
           /\ Called("emit", pInstance, pEventName, None, None, s)
           /\ UNCHANGED removed

NextEvents ==
    /\ steps < MaxEventSteps
    /\ \/ \E r \in Registrations : On(r[1], r[2], r[3])
       \/ \E r \in Registrations : Off(r[1], r[2], r[3])
       \/ \E r \in Registrations : Emit(r[1], r[2])
       \/ Add("i1", Cfg(SpeedHalf, SpeedOne, FALSE, FALSE, None, None, FALSE),
              Some([x |-> Whole(0), y |-> Whole(0)]))
       \/ \E c \in {Whole(0), Whole(MaxCam)} : Update(Some(c), Some(Whole(0)))

SpecEvents == Init /\ [][NextEvents]_vars

----------------------------------------------------------------------------
(* Listeners of a tiling instance: MoveEvent listeners are registered for an *)
(* instance that is added, removed and moved by update ticks                 *)

\* the number of API calls explored by SpecNotify
MaxNotifySteps == 4

NotifyConfigs ==
    { Cfg(SpeedBack, SpeedBack, TRUE, TRUE, None, None, FALSE),
      Cfg(SpeedHalf, SpeedOne, FALSE, TRUE, None, None, FALSE),
      Cfg(0, SpeedOne, TRUE, FALSE, None, None, TRUE) }

NextNotify ==
    /\ steps < MaxNotifySteps
    /\ \/ \E pListener \in {"l1", "l2"} : On("i1", "MoveEvent", pListener)
       \/ \E pConfig \in NotifyConfigs :
             Add("i1", pConfig, Some([x |-> Whole(0), y |-> Whole(0)]))
       \/ Remove("i1")
       \/ \E c \in Cams : Update(Some(c), Some(c))

SpecNotify == Init /\ [][NextNotify]_vars

----------------------------------------------------------------------------
(* The caller keeps the configuration object it passed to add and changes it *)

\* the number of API calls explored by SpecConfig
MaxConfigSteps == 4

\* the assignments the caller makes to a field of its configuration object
ConfigChanges ==
    { <<"horizontalSpeed", SpeedOne>>, <<"verticalSpeed", 0>>,
      <<"infiniteHorizontal", TRUE>>, <<"cameraAnchorX", Some(Whole(1))>>,
      <<"ground", TRUE>>, <<"groundY", Whole(1)>> }

\* the caller of add keeps pConfig when the call registers pInstance
keepConfig(s, pInstance, pConfig) ==
    IF Has(s.instances, pInstance) THEN s
    ELSE [s EXCEPT !.callerConfig[pInstance] = Some(pConfig)]

\* pConfig[field] = value on the object kept for pInstance; the assignment is
\* seen through every reference to that object
changeConfig(s, pInstance, field, value) ==
    LET s1 == [s EXCEPT !.callerConfig[pInstance] = Some([@[1] EXCEPT ![field] = value])]
    IN  IF /\ pInstance \in DOMAIN s.instanceWeakMap
           /\ s.instanceWeakMap[pInstance].object = "caller"
        THEN [s1 EXCEPT !.instanceWeakMap[pInstance][field] = value]
        ELSE s1

AddKept(pInstance, pConfig, viewEye) ==
    /\ LET s == add(keepConfig(Engine, pInstance, pConfig), pInstance, pConfig, viewEye)
       IN  /\ Becomes(s)
           /\ Called("add", pInstance, pConfig.kind, getCamPos(viewEye).x,
                     getCamPos(viewEye).y, s)
           /\ removed' = removed \ {pInstance}

ChangeConfig(pInstance, field, value) ==
    /\ callerConfig[pInstance] # None
    /\ LET s == changeConfig(Engine, pInstance, field, value)
       IN  /\ Becomes(s)
           /\ Called("changeConfig", pInstance, field, None, None, s)
           /\ UNCHANGED removed

NextConfig ==
    /\ steps < MaxConfigSteps
    /\ \/ \E pConfig \in ReAddConfigs :
             AddKept("i1", pConfig, Some([x |-> Whole(0), y |-> Whole(0)]))
       \/ \E c \in ConfigChanges : ChangeConfig("i1", c[1], c[2])
       \/ \E c \in {Whole(0), Whole(MaxCam)} : Update(Some(c), Some(c))
       \/ Remove("i1")

SpecConfig == Init /\ [][NextConfig]_vars

----------------------------------------------------------------------------
(* One Layer: construction, Layer.add, Layer.remove, the speed updates, and   *)
(* the engine's add, remove and update                                       *)

\* the number of API calls explored by SpecLayer
MaxLayerSteps == 4

\* the argument of new Layer(...)
LayerCfg(hs, vs, plane, ih, iv, instancesList, backgroundsList, groundObject) ==
    [horizontalSpeed |-> hs, verticalSpeed |-> vs, plane |-> plane,
     infiniteHorizontal |-> ih, infiniteVertical |-> iv,
     cameraAnchorX |-> None, cameraAnchorY |-> None,
     instances |-> instancesList, backgrounds |-> backgroundsList,
     \* the ground object, as a list of at most one
     ground |-> groundObject,
     groundY |-> IF groundObject = <<>> THEN None ELSE Some(Whole(4)),
     groundMapname |-> IF groundObject = <<>> THEN None ELSE Some("groundMap")]

LayerConfigs ==
    { \* an ordinary instance and a tiling background
      LayerCfg(Number(SpeedHalf), Number(SpeedOne), Number(Whole(2)), Some(TRUE), None,
               <<"i1">>, <<"i2">>, <<>>),
      \* a tiling background and a tiling ground
      LayerCfg(Number(SpeedOne), Number(SpeedHalf), Number(Whole(3)), Some(TRUE), Some(TRUE),
               <<>>, <<"i1">>, <<"i2">>),
      \* a background in a layer that sets no infinite flag
      LayerCfg(Number(SpeedOne), Number(SpeedOne), Number(Whole(1)), None, None,
               <<>>, <<"i1">>, <<>>),
      \* an empty layer: no speeds given, and a plane that is not a number
      LayerCfg(Undefined, Undefined, StringValue, None, None, <<>>, <<>>, <<>>) }

\* the personal configurations passed to Layer.add: omitted; tiling, anchors
\* and speeds of its own; a ground
Personals ==
    { None,
      Some(Personal(Some(SpeedBack), Some(SpeedBack), Some(TRUE), None,
                    Some(Whole(1)), None, None, None, None)),
      Some(Personal(None, None, None, Some(TRUE), None, None,
                    Some(TRUE), Some(Whole(4)), Some("groundMap"))) }

PersonalsOf(i) ==
    IF i = "i2" THEN { c \in Personals : c = None \/ c[1].ground = Some(TRUE) }
    ELSE Personals

\* the speed arguments of updateHorizontalSpeed and updateVerticalSpeed, each
\* with its pUpdateLayerConfigOnly
HorizontalSpeedArgs ==
    { <<Number(SpeedOne), FALSE>>, <<Number(0), FALSE>>, <<StringValue, FALSE>>,
      <<Number(SpeedOne), TRUE>>, <<Null, FALSE>> }
VerticalSpeedArgs ==
    { <<Number(SpeedHalf), FALSE>>, <<Undefined, FALSE>>, <<StringValue, FALSE>>,
      <<False, FALSE>> }

LayerEye == Some([x |-> Whole(0), y |-> Whole(0)])

\* the configuration of a direct Parallax.add made beside the layer
DirectConfig == Cfg(SpeedBack, SpeedBack, FALSE, FALSE, None, None, FALSE)

NewLayer(pConfig, viewEye) ==
    /\ ~layer.constructed
    /\ LET s == newLayer(Engine, pConfig, viewEye)
       IN  /\ Becomes(s)
           /\ Called("newLayer", NullRef, "object", getCamPos(viewEye).x,
                     getCamPos(viewEye).y, s)
           /\ removed' = removed \ ({pConfig.instances[k] : k \in DOMAIN pConfig.instances}
                                    \cup {pConfig.backgrounds[k] : k \in DOMAIN pConfig.backgrounds}
                                    \cup {pConfig.ground[k] : k \in DOMAIN pConfig.ground})

LayerAdd(pInstance, pConfig, viewEye) ==
    /\ layer.constructed
    /\ LET s == layerAdd(Engine, pInstance, pConfig, viewEye)
       IN  /\ Becomes(s)
           /\ Called("layerAdd", pInstance, "object", getCamPos(viewEye).x,
                     getCamPos(viewEye).y, s)
           /\ removed' = removed \ {pInstance}

LayerRemove(pInstance) ==
    /\ layer.constructed
    /\ LET s == layerRemove(Engine, pInstance)
       IN  /\ Becomes(s)
           /\ Called("layerRemove", pInstance, "none", None, None, s)
           /\ removed' = IF Has(instances, pInstance)
                         THEN removed \cup {pInstance} ELSE removed

\* the name records pUpdateLayerConfigOnly, kind the type of the speed argument
\* and x its value when it is a number
UpdateHorizontalSpeed(pHorizontalSpeed, pUpdateLayerConfigOnly) ==
    /\ layer.constructed
    /\ LET s == updateHorizontalSpeed(Engine, pHorizontalSpeed, pUpdateLayerConfigOnly)
       IN  /\ Becomes(s)
           /\ Called(IF pUpdateLayerConfigOnly THEN "updateHorizontalSpeed(layer only)"
                     ELSE "updateHorizontalSpeed",
                     NullRef, pHorizontalSpeed.type,
                     IF pHorizontalSpeed.type = "number"
                     THEN Some(pHorizontalSpeed.value) ELSE None,
                     None, s)
           /\ UNCHANGED removed

UpdateVerticalSpeed(pVerticalSpeed, pUpdateLayerConfigOnly) ==
    /\ layer.constructed
    /\ LET s == updateVerticalSpeed(Engine, pVerticalSpeed, pUpdateLayerConfigOnly)
       IN  /\ Becomes(s)
           /\ Called(IF pUpdateLayerConfigOnly THEN "updateVerticalSpeed(layer only)"
                     ELSE "updateVerticalSpeed",
                     NullRef, pVerticalSpeed.type,
                     None,
                     IF pVerticalSpeed.type = "number"
                     THEN Some(pVerticalSpeed.value) ELSE None, s)
           /\ UNCHANGED removed

NextLayer ==
    /\ steps < MaxLayerSteps
    /\ \/ \E pConfig \in LayerConfigs : NewLayer(pConfig, LayerEye)
       \/ \E pInstance \in Instances :
             \E pConfig \in PersonalsOf(pInstance) : LayerAdd(pInstance, pConfig, LayerEye)
       \/ \E pInstance \in Instances : LayerRemove(pInstance)
       \/ \E a \in HorizontalSpeedArgs : UpdateHorizontalSpeed(a[1], a[2])
       \/ \E a \in VerticalSpeedArgs : UpdateVerticalSpeed(a[1], a[2])
       \/ \E c \in {Whole(0), Whole(MaxCam)} : Update(Some(c), Some(c))
       \* the engine called directly, beside the layer
       \/ Add("i1", DirectConfig, LayerEye)
       \/ Remove("i1")

SpecLayer == Init /\ [][NextLayer]_vars

----------------------------------------------------------------------------
(* Definitions used to state the properties *)

Tracked(i) == Has(instances, i)
\* iconWidth * scaleX and iconHeight * scaleY
TileWidth(i) == Times(IconWidth(i), ScaleX(i))
TileHeight(i) == Times(IconHeight(i), ScaleY(i))
\* the camera coordinate an update call works with
CameraOf(arg) == IF arg = None THEN 0 ELSE arg[1]
\* the stored last camera coordinate as the delta computation reads it
StoredOf(stored) == IF stored = None THEN 0 ELSE stored[1]

----------------------------------------------------------------------------
(* C1 *)

\* C1, first part: in an update call that follows an update call, a tracked
\* non-ground instance with horizontalSpeed s # 0 on which no horizontal
\* tiling shift fires moves in x by exactly s * (cameraX - previous cameraX),
\* and likewise in y with verticalSpeed.
C1_Consecutive(i) ==
    (/\ call.name = "update"
     /\ call'.name = "update"
     /\ Tracked(i)
     /\ ~instanceWeakMap[i].ground)
    => /\ (instanceWeakMap[i].horizontalSpeed # 0 /\ shift'[i].x = 0)
            => obj'[i].x = obj[i].x
                 + Times(CameraOf(call'.x) - CameraOf(call.x),
                         instanceWeakMap[i].horizontalSpeed)
       /\ (instanceWeakMap[i].verticalSpeed # 0 /\ shift'[i].y = 0)
            => obj'[i].y = obj[i].y
                 + Times(CameraOf(call'.y) - CameraOf(call.y),
                         instanceWeakMap[i].verticalSpeed)

\* C1, the example: the first call registers the instance at camera (0, 0)
\* with horizontalSpeed 0.5 and no tiling; update(c, 0) then increases x by
\* 0.5 * c and leaves y unchanged.
C1_Example(i) ==
    (/\ steps = 1
     /\ call.name = "add" /\ call.instance = i
     /\ call.x = Some(0) /\ call.y = Some(0)
     /\ Tracked(i)
     /\ ~instanceWeakMap[i].ground
     /\ instanceWeakMap[i].horizontalSpeed = SpeedHalf
     /\ instanceWeakMap[i].verticalSpeed # 0
     /\ ~instanceWeakMap[i].infiniteHorizontal
     /\ ~instanceWeakMap[i].infiniteVertical
     /\ call'.name = "update"
     /\ call'.y = Some(0))
    => /\ 2 * (obj'[i].x - obj[i].x) = CameraOf(call'.x)
       /\ obj'[i].y = obj[i].y

\* C1: velocity accumulation law.
C1_VelocityAccumulation ==
    [][\A i \in Instances : C1_Consecutive(i) /\ C1_Example(i)]_vars

\* a second update with another camera x has moved a speed-0.5 instance without
\* a tiling shift
C1_Witness ==
    /\ call.name = "update" /\ call.afterUpdate
    /\ call.ref.x # None /\ call.ref.x # call.x
    /\ \E i \in Instances :
          /\ Tracked(i)
          /\ ~instanceWeakMap[i].ground
          /\ instanceWeakMap[i].horizontalSpeed = SpeedHalf
          /\ shift[i].x = 0
          /\ emitted[i] = 1

----------------------------------------------------------------------------
(* C2 *)

\* C2: after every update call, a tracked non-ground instance with
\* horizontalSpeed 0 has x = cameraX - iconWidth * scaleX / 2, one with
\* verticalSpeed 0 has y = cameraY - iconHeight * scaleY / 2, and no tiling
\* shift was applied to it, whatever its infinite flags.
C2_BackgroundAxis ==
    call.name = "update" =>
        \A i \in Instances :
            (Tracked(i) /\ ~instanceWeakMap[i].ground) =>
                /\ instanceWeakMap[i].horizontalSpeed = 0
                      => /\ 2 * obj[i].x = 2 * CameraOf(call.x) - TileWidth(i)
                         /\ shift[i] = NoShift
                /\ instanceWeakMap[i].verticalSpeed = 0
                      => /\ 2 * obj[i].y = 2 * CameraOf(call.y) - TileHeight(i)
                         /\ shift[i] = NoShift

\* an update whose camera x differs from the previous one has placed a
\* background instance that has both infinite flags
C2_Witness ==
    /\ call.name = "update"
    /\ call.ref.x # None /\ call.ref.x # call.x /\ call.x # None
    /\ \E i \in Instances :
          /\ Tracked(i)
          /\ ~instanceWeakMap[i].ground
          /\ instanceWeakMap[i].horizontalSpeed = 0
          /\ instanceWeakMap[i].infiniteHorizontal
          /\ 2 * obj[i].x = 2 * call.x[1] - TileWidth(i)

----------------------------------------------------------------------------
(* C3 *)

\* the shift the rule prescribes for position X, tile size W and camera c;
\* c is a whole number, so c < floor(X - W/6) iff c + 1 <= X - W/6
RuleShift(X, W, c) ==
    IF c > X + W THEN 1
    ELSE IF 6 * (c + Whole(1)) <= 6 * X - W THEN 0 - 1
    ELSE 0

\* the wrap test of an axis runs in an update tick
TestRuns(i, infinite, stored, arg) ==
    /\ ~(~instanceWeakMap[i].ground /\ instanceWeakMap[i].horizontalSpeed = 0)
    /\ ~(~instanceWeakMap[i].ground /\ instanceWeakMap[i].verticalSpeed = 0)
    /\ infinite
    /\ StoredOf(stored) # CameraOf(arg)

\* C3: after an update tick in which the wrap test ran for an axis, with X the
\* position at the moment of the test and W the tile size, the position is
\* X + W if camera > X + W, else X - W if camera < floor(X - W/6), else X.
C3_WrapRule ==
    call.name = "update" =>
        \A i \in Instances :
            Tracked(i) =>
                /\ TestRuns(i, instanceWeakMap[i].infiniteHorizontal, call.ref.x, call.x)
                      => shift[i].x
                           = RuleShift(obj[i].x - shift[i].x * TileWidth(i),
                                       TileWidth(i), CameraOf(call.x))
                /\ TestRuns(i, instanceWeakMap[i].infiniteVertical, call.ref.y, call.y)
                      => shift[i].y
                           = RuleShift(obj[i].y - shift[i].y * TileHeight(i),
                                       TileHeight(i), CameraOf(call.y))

\* an update has shifted an instance one tile backward on x
C3_Witness ==
    /\ call.name = "update"
    /\ \E i \in Instances :
          /\ Tracked(i)
          /\ instanceWeakMap[i].infiniteHorizontal
          /\ shift[i].x = 0 - 1

----------------------------------------------------------------------------
(* C4 *)

\* the tiling clones of a tracked instance
ChildrenOf(map, i) ==
    {map[i].horizontalChildren[n] : n \in DOMAIN map[i].horizontalChildren}
    \cup {map[i].verticalChildren[n] : n \in DOMAIN map[i].verticalChildren}

\* C4: after any update tick in which a tracked instance's position changed,
\* every one of its clones is at the instance's position plus the clone's
\* relative offset; and no call ever changes a clone's relative offset.
C4_CloneOffsets ==
    [][/\ call'.name = "update" =>
            \A i \in Instances :
                (/\ Has(instances', i)
                 /\ (obj'[i].x # obj[i].x \/ obj'[i].y # obj[i].y))
                => \A k \in ChildrenOf(instanceWeakMap', i) :
                      /\ diobs'[k].x - obj'[i].x = diobs'[k].relativeX
                      /\ diobs'[k].y - obj'[i].y = diobs'[k].relativeY
       /\ \A k \in DOMAIN diobs :
             /\ diobs'[k].relativeX = diobs[k].relativeX
             /\ diobs'[k].relativeY = diobs[k].relativeY
      ]_vars

----------------------------------------------------------------------------
(* C5 *)

\* what the engine holds: the tracked set, the configuration records, the
\* host objects, the clones, the stored last camera position and the anchor
EngineVars ==
    <<instances, instanceWeakMap, obj, diobs, lastCamPos, cameraAnchor,
      anchorXSet, anchorYSet>>

\* C5: add with an object configuration for an instance that is already
\* tracked, and remove for an instance that is not tracked, log no error and
\* change nothing.
C5_SilentNoOps ==
    [][(\/ /\ call'.name = "add"
           /\ call'.instance \in Instances
           /\ call'.kind = "object"
           /\ Has(instances, call'.instance)
        \/ /\ call'.name = "remove"
           /\ call'.instance \in Instances
           /\ ~Has(instances, call'.instance))
       => /\ call'.errors = 0
          /\ UNCHANGED EngineVars
          /\ \A i \in Instances : emitted'[i] = 0
      ]_vars

\* add was called for an instance that was already tracked and has tiling clones
C5_Witness ==
    /\ call.name = "add" /\ call.kind = "object"
    /\ call.instance \in Instances
    /\ call.tracked
    /\ call.errors = 0
    /\ Len(diobs) > 0
    /\ lastCamPos.x # None

----------------------------------------------------------------------------
(* C6 *)

\* C6: an update call neither moves an instance that was removed and not added
\* again, nor emits a MoveEvent for it.
C6_RemovalClearsTracking ==
    [][call'.name = "update" =>
          \A i \in removed :
              /\ obj'[i].x = obj[i].x
              /\ obj'[i].y = obj[i].y
              /\ emitted'[i] = 0
      ]_vars

\* update was called with a new camera position after an instance was removed
C6_Witness ==
    /\ call.name = "update"
    /\ removed # {}
    /\ call.x # None /\ call.ref.x # None /\ call.ref.x # call.x
    /\ call.ref.y # call.y

----------------------------------------------------------------------------
(* C7 *)

\* C7: add without an instance, add with a configuration that is not an
\* object, and remove without an instance log exactly one error and change
\* nothing.
C7_ArgumentErrors ==
    [][(\/ /\ call'.name = "add"
           /\ (call'.instance = NullRef \/ call'.kind # "object")
        \/ /\ call'.name = "remove"
           /\ call'.instance = NullRef)
       => /\ call'.errors = 1
          /\ UNCHANGED EngineVars
      ]_vars

\* add(null, null) was called while an instance was tracked
C7_Witness ==
    /\ call.name = "add"
    /\ call.instance = NullRef /\ call.kind = "null"
    /\ call.errors = 1
    /\ instances # <<>>

----------------------------------------------------------------------------
(* C8 *)

\* C8: in one update call every tracked non-ground instance is displaced, on
\* each axis that is not a background axis, by speed * (camera - the last
\* camera coordinate stored before the call) up to the tiling shift, and on
\* return the stored last camera position is the call's camera position;
\* omitted coordinates count as 0.
C8_BaselineReplacement ==
    [][call'.name = "update" =>
          /\ lastCamPos' = [x |-> Some(CameraOf(call'.x)), y |-> Some(CameraOf(call'.y))]
          /\ (call'.x = None /\ call'.y = None)
                => lastCamPos' = [x |-> Some(0), y |-> Some(0)]
          /\ \A i \in Instances :
                (Tracked(i) /\ ~instanceWeakMap[i].ground) =>
                    /\ instanceWeakMap[i].horizontalSpeed # 0
                          => obj'[i].x - shift'[i].x * TileWidth(i)
                               = obj[i].x + Times(CameraOf(call'.x) - StoredOf(lastCamPos.x),
                                                  instanceWeakMap[i].horizontalSpeed)
                    /\ instanceWeakMap[i].verticalSpeed # 0
                          => obj'[i].y - shift'[i].y * TileHeight(i)
                               = obj[i].y + Times(CameraOf(call'.y) - StoredOf(lastCamPos.y),
                                                  instanceWeakMap[i].verticalSpeed)
      ]_vars

\* an update with a new camera x has moved two tracked instances
C8_Witness ==
    /\ call.name = "update"
    /\ call.ref.x # None /\ call.ref.x # Some(CameraOf(call.x))
    /\ Len(instances) = 2
    /\ \A i \in Instances :
          /\ Tracked(i)
          /\ ~instanceWeakMap[i].ground
          /\ instanceWeakMap[i].horizontalSpeed # 0
          /\ emitted[i] = 1

----------------------------------------------------------------------------
(* C9 *)

\* C9: an add call that registers an instance while no last camera position is
\* stored and the camera accessor returns a position stores that position;
\* no add call changes a last camera position that is stored.
C9_FirstRegistrationBaseline ==
    [][call'.name = "add" =>
          /\ (/\ call'.instance \in Instances
              /\ call'.kind = "object"
              /\ ~Has(instances, call'.instance)
              /\ ~(lastCamPos.x # None /\ lastCamPos.y # None)
              /\ call'.x # None /\ call'.y # None)
                => lastCamPos' = [x |-> call'.x, y |-> call'.y]
          /\ (lastCamPos.x # None /\ lastCamPos.y # None)
                => lastCamPos' = lastCamPos
      ]_vars

\* the first registration happened at a camera position other than (0, 0)
C9_Witness ==
    /\ call.name = "add"
    /\ call.instance \in Instances /\ ~call.tracked /\ call.kind = "object"
    /\ call.ref.x = None
    /\ call.x = Some(Whole(MaxCam))
    /\ lastCamPos = [x |-> call.x, y |-> call.y]

----------------------------------------------------------------------------
(* C10 *)

\* C10: add places a ground instance (camera available) at
\* x = cameraX - iconWidth * scaleX / 2, y = groundY on groundMapname; an
\* update call changes a ground instance's coordinate by nothing or by one
\* whole tile, and by nothing on an axis whose infinite flag is not set.
C10_GroundInstances ==
    [][/\ \A i \in Instances :
             (/\ call'.name = "add"
              /\ call'.instance = i
              /\ call'.kind = "object"
              /\ ~Has(instances, i)
              /\ Has(instances', i)
              /\ instanceWeakMap'[i].ground
              /\ call'.x # None)
             => /\ 2 * obj'[i].x = 2 * call'.x[1] - TileWidth(i)
                /\ obj'[i].y = instanceWeakMap'[i].groundY
                /\ obj'[i].mapName = instanceWeakMap'[i].groundMapname
       /\ call'.name = "update" =>
             \A i \in Instances :
                 (Tracked(i) /\ instanceWeakMap[i].ground) =>
                     /\ obj'[i].x - obj[i].x \in {0, TileWidth(i), 0 - TileWidth(i)}
                     /\ obj'[i].y - obj[i].y \in {0, TileHeight(i), 0 - TileHeight(i)}
                     /\ ~instanceWeakMap[i].infiniteHorizontal => obj'[i].x = obj[i].x
                     /\ ~instanceWeakMap[i].infiniteVertical => obj'[i].y = obj[i].y
      ]_vars

\* an update has shifted a ground instance of horizontalSpeed 0 by one tile
C10_Witness ==
    /\ call.name = "update"
    /\ \E i \in Instances :
          /\ Tracked(i)
          /\ instanceWeakMap[i].ground
          /\ instanceWeakMap[i].horizontalSpeed = 0
          /\ shift[i].x # 0
          /\ call.ref.y # call.y

----------------------------------------------------------------------------
(* C11 *)

\* add has registered instance i in this step, with a camera position available
Registers(i) ==
    /\ call'.name = "add" /\ call'.instance = i
    /\ ~Has(instances, i) /\ Has(instances', i)
    /\ call'.x # None /\ call'.y # None

----------------------------------------------------------------------------
(* C12 *)

\* C12: when add registers a non-ground instance that has its own
\* cameraAnchorX (cameraAnchorY) while a global camera anchor is set on that
\* axis, the displacement on that axis is (camera - own anchor) * speed.
C12_OwnAnchorPrecedence ==
    [][\A i \in Instances :
          (Registers(i) /\ ~instanceWeakMap'[i].ground) =>
              /\ (/\ anchorXSet
                  /\ instanceWeakMap'[i].cameraAnchorX # None
                  /\ instanceWeakMap'[i].horizontalSpeed # 0)
                    => obj'[i].x - shift'[i].x * TileWidth(i)
                         = obj[i].x + Times(call'.x[1] - instanceWeakMap'[i].cameraAnchorX[1],
                                            instanceWeakMap'[i].horizontalSpeed)
              /\ (/\ anchorYSet
                  /\ instanceWeakMap'[i].cameraAnchorY # None
                  /\ instanceWeakMap'[i].verticalSpeed # 0)
                    => obj'[i].y - shift'[i].y * TileHeight(i)
                         = obj[i].y + Times(call'.y[1] - instanceWeakMap'[i].cameraAnchorY[1],
                                            instanceWeakMap'[i].verticalSpeed)
      ]_vars

----------------------------------------------------------------------------
(* C13 *)

\* C13: in the tick an update call runs for a tracked instance, MoveEvent is
\* emitted for it exactly once if the tick changed its position and not at
\* all if the position is what it was before the tick, for every kind of
\* instance.
C13_MoveEventIffMoved ==
    [][call'.name = "update" =>
          \A i \in Instances :
              Tracked(i) =>
                  emitted'[i] = IF obj'[i].x # obj[i].x \/ obj'[i].y # obj[i].y
                                THEN 1 ELSE 0
      ]_vars

----------------------------------------------------------------------------
(* C14 *)

\* pListener is in the Set held for (pInstance, pEventName)
Registered(pInstance, pEventName, pListener) ==
    /\ pInstance \in DOMAIN events
    /\ pEventName \in DOMAIN events[pInstance]
    /\ Has(events[pInstance][pEventName], pListener)

\* the sum of the function f over the finite set S
RECURSIVE SumOver(_, _)
SumOver(S, f) ==
    IF S = {} THEN 0
    ELSE LET e == CHOOSE v \in S : TRUE IN f[e] + SumOver(S \ {e}, f)

\* C14: no call of emit, made directly or by the engine during add or update,
\* lets a listener's exception escape; every listener registered for the
\* instance and event is invoked exactly once per emit, also when a listener
\* registered before it throws; each exception is logged once.
C14_ListenerIsolation ==
    [][/\ call'.name \in {"emit", "add", "update"} =>
             /\ ~thrown'
             /\ consoleErrors' =
                    SumOver(Listeners,
                            [l \in Listeners |-> IF Throws(l) THEN invoked'[l] ELSE 0])
       /\ call'.name = "emit" =>
             \A l \in Listeners :
                 invoked'[l] = IF Registered(call'.instance, call'.kind, l) THEN 1 ELSE 0
       /\ call'.name \in {"add", "update"} =>
             \A l \in Listeners :
                 invoked'[l] =
                     SumOver(Instances,
                             [i \in Instances |-> IF Registered(i, "MoveEvent", l)
                                                  THEN emitted'[i] ELSE 0])
      ]_vars

\* update has emitted MoveEvent to three listeners of which the second threw
C14_Witness ==
    /\ call.name = "update"
    /\ emitted["i1"] = 1
    /\ "i1" \in DOMAIN events
    /\ "MoveEvent" \in DOMAIN events["i1"]
    /\ events["i1"]["MoveEvent"] = <<"l1", "l2", "l3">>
    /\ \A l \in Listeners : invoked[l] = 1
    /\ consoleErrors = 1
    /\ ~thrown

----------------------------------------------------------------------------
(* C15 *)

\* C15: remove of a tracked instance drops it from the tracked set and
\* discards its configuration record, and leaves every tiling clone as it is;
\* no later update call changes a clone of an instance that was removed and
\* not added again.
C15_ClonesSurviveRemove ==
    [][/\ (call'.name = "remove" /\ Has(instances, call'.instance)) =>
             /\ ~Has(instances', call'.instance)
             /\ call'.instance \notin DOMAIN instanceWeakMap'
             /\ diobs' = diobs
       /\ call'.name = "update" =>
             /\ Len(diobs') = Len(diobs)
             /\ \A k \in DOMAIN diobs :
                   diobs[k].parent \in removed => diobs'[k] = diobs[k]
      ]_vars

\* update was called with a new camera position while the four clones of a
\* removed instance still existed
C15_Witness ==
    /\ call.name = "update"
    /\ call.ref.x # None /\ call.ref.x # Some(CameraOf(call.x))
    /\ Len(diobs) = 4
    /\ \A k \in DOMAIN diobs : diobs[k].parent \in removed

----------------------------------------------------------------------------
(* C16 *)

\* C16: no instance is in the tracked set twice, and an instance has a
\* configuration record exactly when it is in the tracked set.
C16_RegistryInvariant ==
    /\ \A j, k \in 1..Len(instances) : j # k => instances[j] # instances[k]
    /\ DOMAIN instanceWeakMap = {instances[k] : k \in 1..Len(instances)}

\* one of two registered instances has been removed
C16_Witness ==
    /\ call.name = "remove"
    /\ call.instance \in removed
    /\ Len(instances) = 1
    /\ DOMAIN instanceWeakMap = Instances \ removed

----------------------------------------------------------------------------
(* C17 *)

\* C17: an assignment to a field of the configuration object the caller
\* passed to add changes neither the tracked configuration record nor any
\* position, and the update ticks that follow move the instance with the
\* speeds the record has held since add.
C17_PrivateCopy ==
    [][/\ call'.name = "changeConfig" =>
             /\ instanceWeakMap' = instanceWeakMap
             /\ obj' = obj /\ diobs' = diobs /\ instances' = instances
       /\ \A i \in Instances :
             (Tracked(i) /\ Has(instances', i)) => instanceWeakMap'[i] = instanceWeakMap[i]
       /\ call'.name = "update" =>
             \A i \in Instances :
                 (Tracked(i) /\ ~instanceWeakMap[i].ground) =>
                     /\ instanceWeakMap[i].horizontalSpeed # 0
                           => obj'[i].x - shift'[i].x * TileWidth(i)
                                = obj[i].x + Times(CameraOf(call'.x) - StoredOf(lastCamPos.x),
                                                   instanceWeakMap[i].horizontalSpeed)
                     /\ instanceWeakMap[i].verticalSpeed # 0
                           => obj'[i].y - shift'[i].y * TileHeight(i)
                                = obj[i].y + Times(CameraOf(call'.y) - StoredOf(lastCamPos.y),
                                                   instanceWeakMap[i].verticalSpeed)
      ]_vars

\* update has moved an instance whose caller had changed horizontalSpeed in
\* the configuration object after add
C17_Witness ==
    /\ call.name = "update"
    /\ Tracked("i1")
    /\ callerConfig["i1"] # None
    /\ callerConfig["i1"][1].horizontalSpeed = SpeedOne
    /\ instanceWeakMap["i1"].horizontalSpeed = SpeedHalf
    /\ emitted["i1"] = 1
    /\ obj["i1"].x = Times(Whole(MaxCam), SpeedHalf)

----------------------------------------------------------------------------
(* C18 *)

\* the effect C18 claims for a bulk update of the speed field to v: the layer's
\* speed and the field of every record of an instance added through the layer
\* become v, and nothing else changes
BulkSpeedUpdate(field, other, v) ==
    /\ layer'.config[field] = v
    /\ layer'.config.typeOf[field] = "number"
    /\ layer'.config[other] = layer.config[other]
    /\ layer'.config.typeOf[other] = layer.config.typeOf[other]
    /\ \A i \in layer.added :
          i \in DOMAIN instanceWeakMap =>
              instanceWeakMap'[i] = [instanceWeakMap[i] EXCEPT ![field] = v,
                                                               !.typeOf[field] = "number"]
    /\ DOMAIN instanceWeakMap' = DOMAIN instanceWeakMap
    /\ instances' = instances
    /\ obj' = obj
    /\ diobs' = diobs

\* C18: updateHorizontalSpeed(s, false) with a number s sets the layer's
\* horizontalSpeed and the horizontalSpeed of the record of every instance
\* added through the layer to s and changes nothing else; updateVerticalSpeed
\* does the same with verticalSpeed; the update tick that follows moves the
\* instances with the new speed.
C18_LayerBulkSpeed ==
    [][/\ (call'.name = "updateHorizontalSpeed" /\ call'.kind = "number")
             => BulkSpeedUpdate("horizontalSpeed", "verticalSpeed", call'.x[1])
       /\ (call'.name = "updateVerticalSpeed" /\ call'.kind = "number")
             => BulkSpeedUpdate("verticalSpeed", "horizontalSpeed", call'.y[1])
       /\ (/\ call.name = "updateHorizontalSpeed" /\ call.kind = "number"
           /\ call'.name = "update")
             => \A i \in layer.added :
                   (Tracked(i) /\ ~instanceWeakMap[i].ground) =>
                       IF call.x[1] = 0
                       THEN 2 * obj'[i].x = 2 * CameraOf(call'.x) - TileWidth(i)
                       ELSE obj'[i].x - shift'[i].x * TileWidth(i)
                              = obj[i].x + Times(CameraOf(call'.x) - StoredOf(lastCamPos.x),
                                                 call.x[1])
      ]_vars

\* updateHorizontalSpeed(1, false) has changed the records of an ordinary
\* instance and of a tiling background that a layer of speed 0.5 had registered
C18_Witness ==
    /\ call.name = "updateHorizontalSpeed"
    /\ call.x = Some(SpeedOne)
    /\ layer.added = Instances
    /\ layer.config.plane = Whole(2)
    /\ layer.config.horizontalSpeed = SpeedOne
    /\ \A i \in Instances :
          /\ Tracked(i)
          /\ instanceWeakMap[i].horizontalSpeed = SpeedOne
          /\ instanceWeakMap[i].verticalSpeed = SpeedOne
    /\ Len(instanceWeakMap["i2"].horizontalChildren) = 2

----------------------------------------------------------------------------
(* C19 *)

\* what Layer.add(pInstance, pConfig) composes: the record of pInstance after
\* the call has the layer's speeds and the personal configuration's tiling
\* flags, anchors and ground fields
Composed(i, pConfig) ==
    /\ Has(instances', i)
    /\ i \in DOMAIN instanceWeakMap'
    /\ instanceWeakMap'[i].horizontalSpeed = layer.config.horizontalSpeed
    /\ instanceWeakMap'[i].verticalSpeed = layer.config.verticalSpeed
    /\ instanceWeakMap'[i].infiniteHorizontal
          = Nullish(FieldOf(pConfig, "infiniteHorizontal"), FALSE)
    /\ instanceWeakMap'[i].infiniteVertical
          = Nullish(FieldOf(pConfig, "infiniteVertical"), FALSE)
    /\ instanceWeakMap'[i].cameraAnchorX = FieldOf(pConfig, "cameraAnchorX")
    /\ instanceWeakMap'[i].cameraAnchorY = FieldOf(pConfig, "cameraAnchorY")
    /\ instanceWeakMap'[i].ground = Nullish(FieldOf(pConfig, "ground"), FALSE)
    /\ instanceWeakMap'[i].ground =>
          /\ instanceWeakMap'[i].groundY = FieldOf(pConfig, "groundY")[1]
          /\ instanceWeakMap'[i].groundMapname = FieldOf(pConfig, "groundMapname")[1]

\* a Layer.add that changes nothing
NothingChanges ==
    /\ UNCHANGED <<instances, instanceWeakMap, obj, diobs, lastCamPos>>
    /\ layer' = layer

\* C19 as claimed: Layer.add of an instance that is not in the layer sets its
\* plane and registers it under the composed configuration; Layer.add of an
\* instance that is in the layer changes nothing.
C19_LayerAddComposes ==
    [][\A i \in Instances : \A pConfig \in PersonalsOf(i) :
          LayerAdd(i, pConfig, LayerEye) =>
              IF i \notin layer.added
              THEN /\ obj'[i].plane = Some(layer.config.plane)
                   /\ Composed(i, pConfig)
              ELSE NothingChanges
      ]_vars

\* C19 as amended: the composed configuration is the instance's record when
\* the engine was not already tracking the instance; an instance the engine
\* tracks already gets the layer's plane and keeps the record it has.
C19_LayerAddComposesUntracked ==
    [][\A i \in Instances : \A pConfig \in PersonalsOf(i) :
          LayerAdd(i, pConfig, LayerEye) =>
              IF i \notin layer.added
              THEN /\ obj'[i].plane = Some(layer.config.plane)
                   /\ i \in layer'.added
                   /\ IF Tracked(i)
                      THEN /\ instanceWeakMap' = instanceWeakMap
                           /\ instances' = instances
                      ELSE Composed(i, pConfig)
              ELSE NothingChanges
      ]_vars

\* Layer.add has registered an instance with the layer's speeds although the
\* personal configuration, which set tiling and an anchor, had speeds of its own
C19_Witness ==
    /\ call.name = "layerAdd" /\ call.instance = "i1"
    /\ ~call.tracked
    /\ Tracked("i1")
    /\ "i1" \in layer.added
    /\ obj["i1"].plane = Some(layer.config.plane)
    /\ instanceWeakMap["i1"].horizontalSpeed = layer.config.horizontalSpeed
    /\ layer.config.horizontalSpeed = SpeedOne
    /\ instanceWeakMap["i1"].infiniteHorizontal
    /\ instanceWeakMap["i1"].cameraAnchorX = Some(Whole(1))

----------------------------------------------------------------------------
(* C20 *)

\* C20: an add of an untracked instance with an object for pConfig, made while
\* the host global is unavailable, logs an error, raises no exception and
\* leaves the tracked set and the configuration records as they were.
C20_NoHostNoMutation ==
    [][(/\ call'.name = "add"
        /\ VYLO # "object"
        /\ call'.instance # NullRef
        /\ call'.kind = "object"
        /\ ~call'.tracked)
       => /\ call'.errors > 0
          /\ ~thrown'
          /\ instances' = instances
          /\ instanceWeakMap' = instanceWeakMap
          /\ ~Has(instances', call'.instance)
          /\ call'.instance \notin DOMAIN instanceWeakMap'
      ]_vars

----------------------------------------------------------------------------
(* C21 *)

\* a clone of i at offset (dx, dy) from where i is after the call
CloneAt(i, dx, dy) ==
    [parent |-> i, isCullable |-> FALSE,
     x |-> obj'[i].x + dx, y |-> obj'[i].y + dy, mapName |-> obj'[i].mapName,
     relativeX |-> dx, relativeY |-> dy]

\* the clones that the add of i is to create, in the order of creation
ClonesOfAdd(i) ==
    LET W == Times(IconWidth(i), ScaleX(i))
        H == Times(IconHeight(i), ScaleY(i))
    IN  (IF instanceWeakMap'[i].infiniteHorizontal
         THEN <<CloneAt(i, 0 - W, 0), CloneAt(i, W, 0)>> ELSE <<>>)
        \o (IF instanceWeakMap'[i].infiniteVertical
            THEN <<CloneAt(i, 0, 0 - H), CloneAt(i, 0, H)>> ELSE <<>>)

\* C21: an add that registers an instance creates two clones one icon width
\* to its left and right when infiniteHorizontal is set, two clones one icon
\* height above and below it when infiniteVertical is set, four with both and
\* none with neither; each clone is placed from the instance's position after
\* its initial placement, records that offset, and is not cullable.
C21_CloneCreation ==
    [][(/\ call'.name = "add"
        /\ call'.instance \in Instances
        /\ call'.kind = "object"
        /\ ~call'.tracked
        /\ call'.errors = 0)
       => diobs' = diobs \o ClonesOfAdd(call'.instance)
      ]_vars

\* a ground instance, moved by its initial placement, got its two horizontal
\* clones, and an instance with both flags got four
C21_Witness ==
    /\ call.name = "add" /\ call.instance = "i2" /\ ~call.tracked
    /\ instanceWeakMap["i2"].infiniteHorizontal
    /\ instanceWeakMap["i2"].infiniteVertical
    /\ Tracked("i1")
    /\ instanceWeakMap["i1"].ground
    /\ obj["i1"] # NewObject("i1")
    /\ Len(diobs) = 6
    /\ diobs[1].x = obj["i1"].x - Whole(4)
    /\ diobs[6].y = obj["i2"].y + Whole(3)
    /\ diobs[6].relativeY = Whole(3)

----------------------------------------------------------------------------
(* C22 *)

\* C22: in an update tick an instance is shifted by a tile on an axis only if
\* neither of its axes is in background mode, the infinite flag of that axis
\* is set and the camera coordinate of that axis differs from the stored last
\* camera coordinate (0 when none is stored); in particular a non-ground
\* instance with verticalSpeed 0 is never shifted on x.
C22_WrapGating ==
    [][call'.name = "update" =>
          \A i \in Instances :
             LET pConfig == instanceWeakMap[i]
                 isBackgroundX == ~pConfig.ground /\ pConfig.horizontalSpeed = 0
                 isBackgroundY == ~pConfig.ground /\ pConfig.verticalSpeed = 0
             IN  /\ shift'[i].x # 0 =>
                       /\ Tracked(i)
                       /\ ~isBackgroundX /\ ~isBackgroundY
                       /\ pConfig.infiniteHorizontal
                       /\ DefaultZero(call'.x) # Nullish(lastCamPos.x, 0)
                 /\ shift'[i].y # 0 =>
                       /\ Tracked(i)
                       /\ ~isBackgroundX /\ ~isBackgroundY
                       /\ pConfig.infiniteVertical
                       /\ DefaultZero(call'.y) # Nullish(lastCamPos.y, 0)
      ]_vars

\* an update tick moved the camera past the right end of an instance that has
\* infiniteHorizontal set and verticalSpeed 0, and the instance was not shifted
C22_Witness ==
    /\ call.name = "update"
    /\ Tracked("i1")
    /\ instanceWeakMap["i1"].infiniteHorizontal
    /\ ~instanceWeakMap["i1"].ground
    /\ instanceWeakMap["i1"].horizontalSpeed # 0
    /\ instanceWeakMap["i1"].verticalSpeed = 0
    /\ call.x # call.ref.x
    /\ shift["i1"].x = 0
    /\ call.x[1] > obj["i1"].x + Times(IconWidth("i1"), ScaleX("i1"))

----------------------------------------------------------------------------
(* C23 *)

\* C23: an add, with a camera available, of a non-ground instance that has no
\* axis in background mode and no anchor of its own, made while the global
\* camera anchor is set to the numbers (ax, ay), displaces the instance by
\* (cameraX - ax) * horizontalSpeed and (cameraY - ay) * verticalSpeed, before
\* any tiling shift; ax = 0 and ay = 0 are such numbers.
C23_AnchorZero ==
    [][(/\ call'.name = "add"
        /\ call'.instance \in Instances
        /\ call'.kind = "object"
        /\ ~call'.tracked
        /\ call'.errors = 0
        /\ call'.x # None /\ call'.y # None
        /\ anchorXSet /\ IsNumber(cameraAnchor.x)
        /\ anchorYSet /\ IsNumber(cameraAnchor.y)
        /\ LET pConfig == instanceWeakMap'[call'.instance]
           IN  /\ ~pConfig.ground
               /\ pConfig.horizontalSpeed # 0 /\ pConfig.verticalSpeed # 0
               /\ pConfig.cameraAnchorX = None /\ pConfig.cameraAnchorY = None)
       => LET i == call'.instance
              pConfig == instanceWeakMap'[i]
              W == Times(IconWidth(i), ScaleX(i))
              H == Times(IconHeight(i), ScaleY(i))
          IN  /\ obj'[i].x = obj[i].x
                     + Times(call'.x[1] - cameraAnchor.x[1], pConfig.horizontalSpeed)
                     + shift'[i].x * W
              /\ obj'[i].y = obj[i].y
                     + Times(call'.y[1] - cameraAnchor.y[1], pConfig.verticalSpeed)
                     + shift'[i].y * H
      ]_vars

----------------------------------------------------------------------------
(* C24 *)

\* C24: every object of the backgrounds list passed to new Layer is, after
\* the construction, a member of getBackgrounds() and not of getInstances(),
\* and is registered with tiling enabled.
C24_LayerGroups ==
    [][\A pConfig \in LayerConfigs :
          NewLayer(pConfig, LayerEye) =>
              \A k \in DOMAIN pConfig.backgrounds :
                  LET b == pConfig.backgrounds[k]
                  IN  /\ Has(getBackgrounds(layer'), b)
                      /\ ~Has(getInstances(layer'), b)
                      /\ b \in DOMAIN instanceWeakMap'
                      /\ \/ instanceWeakMap'[b].infiniteHorizontal
                         \/ instanceWeakMap'[b].infiniteVertical
      ]_vars

----------------------------------------------------------------------------
(* C25 *)

\* C25: emit(instance, name) invokes a listener once when the listener's last
\* on / off call for (instance, name) was an on, however many on calls were
\* made, and does not invoke it otherwise (listeners of another instance or
\* of another event name included); an off for a listener that is not
\* registered for (instance, name) leaves the registrations as they are.
C25_ListenerRegistration ==
    [][\A r \in Registrations :
          /\ Emit(r[1], r[2]) =>
                \A l \in Listeners :
                    invoked'[l] = IF onCalls[<<r[1], r[2], l>>] > 0 THEN 1 ELSE 0
          /\ (Off(r[1], r[2], r[3]) /\ onCalls[r] = 0) => events' = events
      ]_vars

\* emit for (i1, MoveEvent) invoked l1 once after two on calls for it, and did
\* not invoke l3, which is not registered; l1 is also registered for another
\* event of i1
C25_Witness ==
    /\ call.name = "emit" /\ call.instance = "i1" /\ call.kind = "MoveEvent"
    /\ onCalls[<<"i1", "MoveEvent", "l1">>] = 2
    /\ onCalls[<<"i1", "OtherEvent", "l1">>] = 1
    /\ onCalls[<<"i1", "MoveEvent", "l3">>] = 0
    /\ invoked["l1"] = 1
    /\ invoked["l3"] = 0
    /\ "OtherEvent" \in DOMAIN events["i1"]

----------------------------------------------------------------------------
(* C26 *)

\* the speed arguments that are neither a number nor left out
NotNumbers == {"string", "null", "boolean"}

\* C26: updateHorizontalSpeed and updateVerticalSpeed called with a value that
\* is not a number (a string, null, false) log a warning and leave the layer's
\* stored speeds and every configuration record as they were.
C26_SpeedTypeValidation ==
    [][/\ \A args \in HorizontalSpeedArgs :
             (UpdateHorizontalSpeed(args[1], args[2]) /\ args[1].type \in NotNumbers)
             => /\ call'.warnings > 0
                /\ layer' = layer
                /\ instanceWeakMap' = instanceWeakMap
       /\ \A args \in VerticalSpeedArgs :
             (UpdateVerticalSpeed(args[1], args[2]) /\ args[1].type \in NotNumbers)
             => /\ call'.warnings > 0
                /\ layer' = layer
                /\ instanceWeakMap' = instanceWeakMap
      ]_vars

----------------------------------------------------------------------------
(* C27 *)

\* C27: an update made right after an update with the same camera position
\* moves no instance and no clone, emits no MoveEvent and leaves the stored
\* last camera position at that camera position.
C27_StationaryCamera ==
    [][(/\ call.name = "update"
        /\ call'.name = "update"
        /\ DefaultZero(call'.x) = DefaultZero(call.x)
        /\ DefaultZero(call'.y) = DefaultZero(call.y))
       => /\ obj' = obj
          /\ diobs' = diobs
          /\ \A i \in Instances : emitted'[i] = 0
          /\ lastCamPos' = lastCamPos
          /\ lastCamPos' = [x |-> Some(DefaultZero(call'.x)),
                            y |-> Some(DefaultZero(call'.y))]
      ]_vars

\* the second of two updates with the same camera position, for a tiling
\* instance that the first update, or the one before, had moved
C27_Witness ==
    /\ call.name = "update"
    /\ call.afterUpdate
    /\ call.ref = [x |-> call.x, y |-> call.y]
    /\ call.x = Some(Whole(MaxCam))
    /\ Tracked("i1")
    /\ instanceWeakMap["i1"].infiniteHorizontal
    /\ Len(diobs) >= 2
    /\ obj["i1"].x # NewObject("i1").x
    /\ emitted["i1"] = 0

----------------------------------------------------------------------------
(* C28 *)

\* the forward test "pCameraX > rightEnd" and the backward test
\* "pCameraX < leftEnd" of an axis, for an instance at pos of tile size size
ForwardCondition(pos, size, pCamera) == pCamera > pos + size
BackwardCondition(pos, size, pCamera) == pCamera < FloorOfMinusSixth(pos, size)

\* C28: after an update tick that shifted an instance forward by a tile on an
\* axis, the backward test of that axis is false at the tick's camera
\* coordinate and the instance's new position, and after a backward shift the
\* forward test is false; a tick that follows with the same camera position
\* applies no shift.
C28_WrapHysteresis ==
    [][call'.name = "update" =>
          \A i \in Instances :
             LET W == Times(IconWidth(i), ScaleX(i))
                 H == Times(IconHeight(i), ScaleY(i))
                 cx == DefaultZero(call'.x)
                 cy == DefaultZero(call'.y)
             IN  /\ shift'[i].x = 1 => ~BackwardCondition(obj'[i].x, W, cx)
                 /\ shift'[i].x = 0 - 1 => ~ForwardCondition(obj'[i].x, W, cx)
                 /\ shift'[i].y = 1 => ~BackwardCondition(obj'[i].y, H, cy)
                 /\ shift'[i].y = 0 - 1 => ~ForwardCondition(obj'[i].y, H, cy)
                 /\ (/\ call.name = "update"
                     /\ shift[i] # NoShift
                     /\ DefaultZero(call.x) = cx /\ DefaultZero(call.y) = cy)
                    => shift'[i] = NoShift
      ]_vars

\* a tick shifted the instance forward on x and backward on y
C28_Witness ==
    /\ call.name = "update"
    /\ Tracked("i1")
    /\ shift["i1"] = [x |-> 1, y |-> 0 - 1]

----------------------------------------------------------------------------
(* C29 *)

\* C29: in an update tick every invocation of a MoveEvent listener of an
\* instance is made with all the clones of the instance at the instance's
\* position plus their relative offsets.
C29_SyncBeforeNotify ==
    [][call'.name = "update" => outOfSync' = 0]_vars

\* an update tick moved a tiling instance and its four clones and invoked
\* both of its MoveEvent listeners
C29_Witness ==
    /\ call.name = "update"
    /\ Tracked("i1")
    /\ Len(instanceWeakMap["i1"].horizontalChildren) = 2
    /\ Len(instanceWeakMap["i1"].verticalChildren) = 2
    /\ emitted["i1"] = 1
    /\ invoked["l1"] = 1 /\ invoked["l2"] = 1
    /\ obj["i1"].x # NewObject("i1").x
    /\ diobs[1].x # NewObject("i1").x - Times(IconWidth("i1"), ScaleX("i1"))
    /\ InSync(Engine, "i1")

----------------------------------------------------------------------------
(* C30 *)

\* C30: Layer.remove of an instance that was never added to the layer and
\* that the engine tracks through a direct Parallax.add leaves the tracked set
\* and the instance's configuration record as they were.
C30_LayerRemoveIsolation ==
    [][\A i \in Instances :
          (/\ LayerRemove(i)
           /\ i \notin layer.ever
           /\ Tracked(i))
          => /\ instances' = instances
             /\ i \in DOMAIN instanceWeakMap'
             /\ instanceWeakMap'[i] = instanceWeakMap[i]
      ]_vars

====
